---- MODULE Spec2Model ----
(***************************************************************************)
(* Model of the Kiro CLI setup handler (KiroCliSetup), the installer that  *)
(* turns compiled BMAD agent documents into .kiro/agents file pairs and    *)
(* .kiro/commands command files.                                           *)
(*                                                                         *)
(* Strings whose characters matter (names, file names) are sequences of    *)
(* one-character strings.  Source documents are sequences of tokens: a     *)
(* literal of the markup ("<agent", ">" ...) is one token, any other       *)
(* character is a token of its own.                                        *)
(***************************************************************************)
EXTENDS Integers, Sequences, FiniteSets, TLC

\* ------------------------------------------------------------------------
\* Bounds of the model
\* ------------------------------------------------------------------------
MaxLen == 4
MaxArtifacts == 2
\* the number of I/O operations that fail in one run
MaxFaults == 2
\* the number of entries of the input root
MaxEntries == 3

\* ------------------------------------------------------------------------
\* Characters and strings
\* ------------------------------------------------------------------------
UpperChars == <<"A", "B", "C", "D", "E", "F", "G", "H", "I", "J", "K", "L", "M",
                "N", "O", "P", "Q", "R", "S", "T", "U", "V", "W", "X", "Y", "Z">>
LowerChars == <<"a", "b", "c", "d", "e", "f", "g", "h", "i", "j", "k", "l", "m",
                "n", "o", "p", "q", "r", "s", "t", "u", "v", "w", "x", "y", "z">>
DigitChars == {"0", "1", "2", "3", "4", "5", "6", "7", "8", "9"}

Range(s) == {s[i] : i \in 1..Len(s)}

\* String.prototype.toLowerCase on one character
LowerChar(c) ==
  IF \E i \in 1..26 : UpperChars[i] = c
  THEN LowerChars[CHOOSE i \in 1..26 : UpperChars[i] = c]
  ELSE c

\* String.prototype.toLowerCase
toLowerCase(s) == [i \in 1..Len(s) |-> LowerChar(s[i])]

\* the regular expression class \s
IsSpace(c) == c \in {" ", "\t", "\n"}

\* the regular expression class [a-z0-9-]
IsSafeChar(c) == c \in Range(LowerChars) \cup DigitChars \cup {"-"}

\* s.replaceAll(/\s+/g, '-'): every maximal run of whitespace becomes one hyphen
RECURSIVE replaceSpaceRuns(_)
replaceSpaceRuns(s) ==
  IF s = <<>> THEN <<>>
  ELSE IF IsSpace(Head(s))
       THEN LET RECURSIVE skip(_)
                skip(t) == IF t # <<>> /\ IsSpace(Head(t)) THEN skip(Tail(t)) ELSE t
            IN <<"-">> \o replaceSpaceRuns(skip(s))
       ELSE <<Head(s)>> \o replaceSpaceRuns(Tail(s))

\* a plausible slip: the class is written [^\w-], which lets the underscore through
stripUnsafe_WordClass(s) == SelectSeq(s, LAMBDA c : IsSafeChar(c) \/ c = "_")

\* s.replaceAll(/[^a-z0-9-]/g, ''): every character outside the class is deleted
stripUnsafe(s) == SelectSeq(s, IsSafeChar)

\* a plausible slip: the whitespace is not collapsed, one hyphen per character
RECURSIVE replaceEachSpace(_)
replaceEachSpace(s) ==
  IF s = <<>> THEN <<>>
  ELSE <<IF IsSpace(Head(s)) THEN "-" ELSE Head(s)>> \o replaceEachSpace(Tail(s))

sanitizeAgentName_NoCollapse(name) == stripUnsafe(replaceEachSpace(toLowerCase(name)))

\* KiroCliSetup.sanitizeAgentName
sanitizeAgentName(name) == stripUnsafe(replaceSpaceRuns(toLowerCase(name)))

\* String.prototype.startsWith
startsWith(s, prefix) ==
  /\ Len(s) >= Len(prefix)
  /\ SubSeq(s, 1, Len(prefix)) = prefix

\* String.prototype.trim
RECURSIVE trimLeft(_)
trimLeft(s) == IF s # <<>> /\ IsSpace(Head(s)) THEN trimLeft(Tail(s)) ELSE s

RECURSIVE trimRight(_)
trimRight(s) ==
  IF s # <<>> /\ IsSpace(s[Len(s)]) THEN trimRight(SubSeq(s, 1, Len(s) - 1)) ELSE s

trim(s) == trimRight(trimLeft(s))

\* ------------------------------------------------------------------------
\* Source documents and the regular expressions of parseCompiledAgent
\*
\* Tokens of a document: the markup literals "<agent", "<persona",
\* "</persona", "<role", "</role", ..., "<menu", "</menu", "<item", "</item",
\* "name=", "title=", "icon=", "cmd=", and the single characters ">", "\"",
\* "<", whitespace and text.  A "<" only ever occurs as the first character
\* of a token and ">" and "\"" only as tokens of their own, so the character
\* classes [^>], [^<] and [^"] of the source are decided token by token.
\* ------------------------------------------------------------------------
NULL == <<"null">>

\* the null that parseCompiledAgent returns instead of a record
NullRecord == [null |-> TRUE]

GT == ">"
QUOTE == "\""

\* tokens whose first character is "<"
LtTokens == {"<", "<agent", "<persona", "</persona", "<role", "</role",
             "<identity", "</identity", "<communication_style",
             "</communication_style", "<principles", "</principles",
             "<menu", "</menu", "<item", "</item", "</agent"}

IsLt(t) == t \in LtTokens

\* least index >= from whose token is in T, or 0
RECURSIVE FirstIn(_, _, _)
FirstIn(s, from, T) ==
  IF from > Len(s) THEN 0
  ELSE IF s[from] \in T THEN from
  ELSE FirstIn(s, from + 1, T)

\* least element of a non-empty set of indices; 0 for the empty set
Least(S) == IF S = {} THEN 0 ELSE CHOOSE i \in S : \A j \in S : i <= j

\* end of the maximal whitespace run that starts at index from (from - 1 if none)
RECURSIVE SpaceRunEnd(_, _)
SpaceRunEnd(s, from) ==
  IF from <= Len(s) /\ IsSpace(s[from]) THEN SpaceRunEnd(s, from + 1) ELSE from - 1

\* /<agent\s+([^>]+)>/ anchored at index p: the index of the closing ">" or 0
AgentTagAt(content, p) ==
  IF /\ content[p] = "<agent"
     /\ p + 1 <= Len(content)
     /\ IsSpace(content[p + 1])
  THEN LET q == FirstIn(content, p + 2, {GT})
       IN IF q >= p + 3 THEN q ELSE 0
  ELSE 0

\* a plausible slip: /<agent\s*([^>]*)>/, a tag without attributes also matches
agentTagMatch_AnyTag(content) ==
  LET p == Least({i \in 1..Len(content) :
                   content[i] = "<agent" /\ FirstIn(content, i + 1, {GT}) # 0})
  IN IF p = 0 THEN NULL ELSE SubSeq(content, p + 1, FirstIn(content, p + 1, {GT}) - 1)

\* content.match(/<agent\s+([^>]+)>/): capture group 1 of the leftmost match, or NULL
agentTagMatch(content) ==
  LET p == Least({i \in 1..Len(content) : AgentTagAt(content, i) # 0})
      q == AgentTagAt(content, p)
      w == SpaceRunEnd(content, p + 1)
  IN IF p = 0 THEN NULL
     ELSE IF w < q - 1 THEN SubSeq(content, w + 1, q - 1)
     ELSE SubSeq(content, q - 1, q - 1)

\* /key="([^"]+)"/ anchored at index p of attrs: index of the closing quote or 0
AttrAt(attrs, key, p) ==
  IF /\ attrs[p] = key
     /\ p + 1 <= Len(attrs)
     /\ attrs[p + 1] = QUOTE
  THEN LET q == FirstIn(attrs, p + 2, {QUOTE})
       IN IF q >= p + 3 THEN q ELSE 0
  ELSE 0

\* attrs.match(/key="([^"]+)"/): capture group 1 of the leftmost match, or NULL
attrMatch(attrs, key) ==
  LET p == Least({i \in 1..Len(attrs) : AttrAt(attrs, key, i) # 0})
  IN IF p = 0 THEN NULL ELSE SubSeq(attrs, p + 2, AttrAt(attrs, key, p) - 1)

\* index of the first open, ">" pair at or after from, or 0
TagFrom(s, from, open) ==
  Least({i \in from..(Len(s) - 1) : s[i] = open /\ s[i + 1] = GT})

\* content.match(/<tag>([\s\S]*?)<\/tag>/): capture group 1 of the leftmost,
\* shortest match, or NULL
blockMatch(content, open, close) ==
  LET p == TagFrom(content, 1, open)
      c == IF p = 0 THEN 0 ELSE TagFrom(content, p + 2, close)
  IN IF c = 0 THEN NULL ELSE SubSeq(content, p + 2, c - 1)

\* /<tag>([^<]+)<\/tag>/ anchored at index p: index of the closing tag or 0
FieldAt(s, open, close, p) ==
  IF /\ s[p] = open
     /\ p + 1 <= Len(s)
     /\ s[p + 1] = GT
  THEN LET f == FirstIn(s, p + 2, LtTokens)
       IN IF f >= p + 3 /\ s[f] = close /\ f + 1 <= Len(s) /\ s[f + 1] = GT THEN f ELSE 0
  ELSE 0

\* personaContent.match(/<tag>([^<]+)<\/tag>/): capture group 1 of the leftmost match, or NULL
fieldMatch(s, open, close) ==
  LET p == Least({i \in 1..Len(s) : FieldAt(s, open, close, i) # 0})
  IN IF p = 0 THEN NULL ELSE SubSeq(s, p + 2, FieldAt(s, open, close, p) - 1)

\* a plausible slip: the capture is not trimmed
fieldText_NoTrim(s, open, close) ==
  IF fieldMatch(s, open, close) = NULL THEN <<>> ELSE fieldMatch(s, open, close)

\* roleMatch ? roleMatch[1].trim() : ''
fieldText(s, open, close) ==
  IF fieldMatch(s, open, close) = NULL THEN <<>> ELSE trim(fieldMatch(s, open, close))

\* /<item\s+cmd="([^"]+)"[^>]*>([^<]+)<\/item>/ anchored at index p:
\* <<index after the match, trigger, description>> or <<>>
ItemAt(s, p) ==
  IF s[p] = "<item" /\ p + 1 <= Len(s) /\ IsSpace(s[p + 1])
  THEN LET w  == SpaceRunEnd(s, p + 1)
           q1 == w + 2
           q2 == IF w + 2 <= Len(s) /\ s[w + 1] = "cmd=" /\ s[w + 2] = QUOTE
                 THEN FirstIn(s, w + 3, {QUOTE}) ELSE 0
           g  == IF q2 >= q1 + 2 THEN FirstIn(s, q2 + 1, {GT}) ELSE 0
           f  == IF g # 0 THEN FirstIn(s, g + 1, LtTokens) ELSE 0
       IN IF f >= g + 2 /\ g # 0 /\ s[f] = "</item" /\ f + 1 <= Len(s) /\ s[f + 1] = GT
          THEN <<f + 2, SubSeq(s, q1 + 1, q2 - 1), SubSeq(s, g + 1, f - 1)>>
          ELSE <<>>
  ELSE <<>>

\* a plausible slip: a single match instead of the exec loop
menuItemsFrom_FirstOnly(s, from) ==
  LET p == Least({i \in from..Len(s) : ItemAt(s, i) # <<>>})
  IN IF p = 0 THEN <<>>
     ELSE <<[trigger |-> ItemAt(s, p)[2], description |-> trim(ItemAt(s, p)[3])]>>

\* the while loop over itemRegex.exec(menuMatch[1])
RECURSIVE menuItemsFrom(_, _)
menuItemsFrom(s, from) ==
  LET p == Least({i \in from..Len(s) : ItemAt(s, i) # <<>>})
      m == ItemAt(s, p)
  IN IF p = 0 THEN <<>>
     ELSE <<[trigger |-> m[2], description |-> trim(m[3])]>> \o menuItemsFrom(s, m[1])

DefaultIcon == <<"robot">>

\* KiroCliSetup.parseCompiledAgent
parseCompiledAgent(content, artifact) ==
  LET attrs == agentTagMatch(content)
      persona == blockMatch(content, "<persona", "</persona")
      menu == blockMatch(content, "<menu", "</menu")
  IN IF attrs = NULL THEN NullRecord
     ELSE [name |-> IF attrMatch(attrs, "name=") # NULL
                    THEN attrMatch(attrs, "name=") ELSE artifact.name,
           title |-> IF attrMatch(attrs, "title=") # NULL
                     THEN attrMatch(attrs, "title=") ELSE artifact.description,
           icon |-> IF attrMatch(attrs, "icon=") # NULL
                    THEN attrMatch(attrs, "icon=") ELSE DefaultIcon,
           role |-> IF persona = NULL THEN <<>> ELSE fieldText(persona, "<role", "</role"),
           identity |-> IF persona = NULL THEN <<>>
                        ELSE fieldText(persona, "<identity", "</identity"),
           communicationStyle |->
             IF persona = NULL THEN <<>>
             ELSE fieldText(persona, "<communication_style", "</communication_style"),
           principles |-> IF persona = NULL THEN <<>>
                          ELSE fieldText(persona, "<principles", "</principles"),
           menuItems |-> IF menu = NULL THEN <<>> ELSE menuItemsFrom(menu, 1)]

\* ------------------------------------------------------------------------
\* Compiled agent documents, described by what they are made of: the <agent>
\* tags (each a list of attributes), the <persona> blocks (each a list of
\* sub-tags), the <menu> blocks (each a list of items), a <role> tag outside
\* every persona block and an <item> outside every menu block.
\* ------------------------------------------------------------------------
Attr(key, value) == [key |-> key, value |-> value]
Field(tag, text) == [tag |-> tag, text |-> text]
Item(form, cmd, text) == [form |-> form, cmd |-> cmd, text |-> text]

RECURSIVE Concat(_)
Concat(ss) == IF ss = <<>> THEN <<>> ELSE Head(ss) \o Concat(Tail(ss))

\* key="value"
RenderAttr(a) == <<" ", a.key, QUOTE>> \o a.value \o <<QUOTE>>

\* <agent key="value" ...>, or <agent> for a tag without attributes
RenderTag(attrs) ==
  <<"<agent">> \o Concat([i \in 1..Len(attrs) |-> RenderAttr(attrs[i])]) \o <<GT>>

CloseOf(tag) ==
  CASE tag = "<role" -> "</role"
    [] tag = "<identity" -> "</identity"
    [] tag = "<communication_style" -> "</communication_style"
    [] tag = "<principles" -> "</principles"

\* <tag>text</tag>
RenderField(f) == <<f.tag, GT>> \o f.text \o <<CloseOf(f.tag), GT>>

\* <persona>...</persona>
RenderPersona(fields) ==
  <<"<persona", GT>> \o Concat([i \in 1..Len(fields) |-> RenderField(fields[i])])
    \o <<"</persona", GT>>

\* <item cmd="c">text</item>, with a second attribute, without the cmd attribute, or
\* with another attribute in front of cmd
RenderItem(it) ==
  (CASE it.form = "plain" -> <<"<item", " ", "cmd=", QUOTE>> \o it.cmd \o <<QUOTE>>
     [] it.form = "extraAttr" ->
          <<"<item", " ", "cmd=", QUOTE>> \o it.cmd \o <<QUOTE, " ", "x", "=", QUOTE, "y", QUOTE>>
     [] it.form = "noCmd" -> <<"<item">>
     [] it.form = "idFirst" ->
          <<"<item", " ", "i", "d", "=", QUOTE, "1", QUOTE, " ", "cmd=", QUOTE>>
            \o it.cmd \o <<QUOTE>>)
  \o <<GT>> \o it.text \o <<"</item", GT>>

\* <menu>...</menu>
RenderMenu(items) ==
  <<"<menu", GT>> \o Concat([i \in 1..Len(items) |-> RenderItem(items[i])]) \o <<"</menu", GT>>

\* the document: the first <agent> tag, a <role> and an <item> that stand outside every
\* block, the persona blocks, the menu blocks, then the other <agent> tags
Render(d) ==
  <<"#", "\n">>
  \o (IF d.tags = <<>> THEN <<>> ELSE RenderTag(Head(d.tags)))
  \o (IF d.strayRole THEN RenderField(Field("<role", <<"X">>)) ELSE <<>>)
  \o (IF d.strayItem THEN RenderItem(Item("plain", <<"s">>, <<"S">>)) ELSE <<>>)
  \o Concat([i \in 1..Len(d.personas) |-> RenderPersona(d.personas[i])])
  \o Concat([i \in 1..Len(d.menus) |-> RenderMenu(d.menus[i])])
  \o (IF d.tags = <<>> THEN <<>>
      ELSE Concat([i \in 1..(Len(d.tags) - 1) |-> RenderTag(d.tags[i + 1])]))

\* the attributes, persona sub-tags and menu items the documents are built from
Parts ==
  [nameN |-> Attr("name=", <<"P", "M">>),
   nameM |-> Attr("name=", <<"Q">>),
   nameEmpty |-> Attr("name=", <<>>),
   titleT |-> Attr("title=", <<"T", " ", "t">>),
   iconI |-> Attr("icon=", <<"i">>),
   roleR |-> Field("<role", <<" ", "R", " ">>),
   roleQ |-> Field("<role", <<"Q">>),
   itemC |-> Item("plain", <<"c">>, <<"D">>),
   itemE |-> Item("plain", <<"e", "2">>, <<" ", "E", " ", "e", "\n">>)]

\* the attribute lists of an <agent> tag
AttrLists ==
  {<<>>, <<Parts.nameN>>, <<Parts.nameN, Parts.titleT, Parts.iconI>>, <<Parts.titleT>>, <<Parts.iconI, Parts.nameM>>, <<Parts.nameEmpty>>,
   <<Parts.nameN, Parts.nameM>>, <<Parts.nameEmpty, Parts.nameM, Parts.titleT>>}

\* the <agent> tags of a document
TagSeqs ==
  {<<>>} \cup {<<a>> : a \in AttrLists}
    \cup {<<<<>>, <<Parts.nameM, Parts.titleT>>>>, <<<<Parts.nameN>>, <<Parts.nameM, Parts.titleT, Parts.iconI>>>>}

\* the sub-tags of a <persona> block
PersonaBlocks ==
  {<<>>, <<Parts.roleR>>,
   <<Parts.roleQ, Field("<identity", <<"I">>), Field("<communication_style", <<"S", "\n">>),
     Field("<principles", <<"\n", "P", " ", "p">>)>>,
   <<Parts.roleR, Parts.roleQ>>,
   <<Field("<role", <<>>), Parts.roleQ>>,
   <<Field("<role", <<" ">>)>>,
   <<Field("<role", <<"<", "b">>), Parts.roleQ>>,
   <<Field("<principles", <<"P">>), Field("<identity", <<"I">>)>>}

\* the <persona> blocks of a document
PersonaSeqs ==
  {<<>>} \cup {<<b>> : b \in PersonaBlocks}
    \cup {<<<<>>, <<Parts.roleR>>>>, <<<<Field("<identity", <<"I">>)>>, <<Parts.roleQ>>>>}

\* the items of a <menu> block
MenuBlocks ==
  {<<>>, <<Parts.itemC>>, <<Parts.itemE, Item("extraAttr", <<"c">>, <<"D">>)>>,
   <<Item("noCmd", <<>>, <<"D">>), Parts.itemE>>,
   <<Item("plain", <<"c">>, <<>>), Parts.itemE>>,
   <<Item("plain", <<>>, <<"D">>), Parts.itemC>>,
   <<Item("idFirst", <<"c">>, <<"D">>)>>,
   <<Parts.itemC, Parts.itemC, Parts.itemE>>,
   <<Item("plain", <<"c">>, <<"<", "b">>), Parts.itemE>>,
   <<Item("plain", <<"c">>, <<" ">>)>>}

\* the <menu> blocks of a document
MenuSeqs ==
  {<<>>} \cup {<<b>> : b \in MenuBlocks} \cup {<<<<>>, <<Parts.itemC>>>>, <<<<Parts.itemC>>, <<Parts.itemE>>>>}

Docs ==
  [tags : TagSeqs, personas : PersonaSeqs, menus : MenuSeqs, strayRole : BOOLEAN,
   strayItem : BOOLEAN]

NoDoc == [tags |-> <<>>, personas |-> <<>>, menus |-> <<>>, strayRole |-> FALSE,
          strayItem |-> FALSE]

\* ------------------------------------------------------------------------
\* The schema validator (kiro-agent-schema.json compiled by Ajv).  The schema
\* document is not part of the sources: it is an oracle that accepts a
\* configuration of the documented shape unless it rejects the name.
\* ------------------------------------------------------------------------
RejectedNames == {<<"b", "m", "a", "d", "-", "c", "o", "r", "e", "-", "q", "a">>}

validate(agentConfig) ==
  /\ DOMAIN agentConfig =
       {"name", "description", "prompt", "tools", "mcpServers", "useLegacyMcpJson", "resources"}
  /\ agentConfig.name \notin RejectedNames
  /\ agentConfig.useLegacyMcpJson \in BOOLEAN

\* ------------------------------------------------------------------------
\* validateAgentJson and the Ajv instance.  A configuration is seen here as the
\* kind of value each field holds ("absent" for a field that is not there).
\* The schema document is not part of the sources; the fields and their types
\* are the documented ones, name being required.
\* ------------------------------------------------------------------------
SchemaTypes ==
  [name |-> "string", description |-> "string", prompt |-> "string", tools |-> "array",
   mcpServers |-> "object", useLegacyMcpJson |-> "boolean", resources |-> "array"]

SchemaRequired == {"name"}

\* the fields of cfg that violate the schema
Violations(cfg) ==
  {f \in DOMAIN SchemaTypes :
     \/ cfg[f] = "absent" /\ f \in SchemaRequired
     \/ cfg[f] \notin {"absent", SchemaTypes[f]}}

\* new Ajv({ strict: false, logger: false }): allErrors is not set
AjvOptions == [strict |-> FALSE, logger |-> FALSE, allErrors |-> FALSE]

\* the values validate.errors can have after validate(cfg), as the sets of fields they
\* name: every violation with allErrors, else validation returns at the first
\* violation it meets, whichever that is
ajvErrors(cfg, options) ==
  IF Violations(cfg) = {} THEN {{}}
  ELSE IF options.allErrors THEN {Violations(cfg)}
  ELSE {{f} : f \in Violations(cfg)}

NoThrow == [threw |-> FALSE, reported |-> {}]

\* KiroCliSetup.validateAgentJson, given validate.errors: the Error it throws carries one
\* `${err.instancePath}: ${err.message}` per element of validate.errors
validateAgentJson(errors) ==
  IF errors # {} THEN [threw |-> TRUE, reported |-> errors] ELSE NoThrow

\* the object createAgentConfig builds, seen as kinds of values
ValidShape == SchemaTypes

\* the configurations validateAgentJson is called with: each field holds a value of the
\* type of the schema, a number, or is absent
ValConfigs ==
  {c \in [DOMAIN SchemaTypes -> {"string", "array", "object", "boolean", "number", "absent"}] :
     \A f \in DOMAIN SchemaTypes : c[f] \in {SchemaTypes[f], "number", "absent"}}

\* a thrown Error
Thrown(message) == [threw |-> TRUE, message |-> message]

IsThrown(r) == "threw" \in DOMAIN r

JsonExt == <<".", "j", "s", "o", "n">>
PromptExt == <<"-", "p", "r", "o", "m", "p", "t", ".", "m", "d">>
MdExt == <<".", "m", "d">>
BmadPrefix == <<"b", "m", "a", "d">>

\* a plausible slip: the title is preferred to the role
AgentConfigObject_TitleFirst(agentName, agentData) ==
  [name |-> agentName,
   description |-> agentData.name \o <<" - ">>
                   \o (IF agentData.title # <<>> THEN agentData.title ELSE agentData.role),
   prompt |-> <<"file://">> \o agentName \o PromptExt,
   tools |-> <<"*">>,
   mcpServers |-> <<>>,
   useLegacyMcpJson |-> TRUE,
   resources |-> <<>>]

\* the object literal of createAgentConfig
AgentConfigObject(agentName, agentData) ==
  [name |-> agentName,
   description |-> agentData.name \o <<" - ">>
                   \o (IF agentData.role # <<>> THEN agentData.role ELSE agentData.title),
   prompt |-> <<"file://">> \o agentName \o PromptExt,
   tools |-> <<"*">>,
   mcpServers |-> <<>>,
   useLegacyMcpJson |-> TRUE,
   resources |-> <<>>]

\* a plausible slip: the object is returned without the validation call
createAgentConfig_Unvalidated(agentName, agentData) == AgentConfigObject(agentName, agentData)

\* KiroCliSetup.createAgentConfig: the configuration, or the error validateAgentJson throws
createAgentConfig(agentName, agentData) ==
  IF validate(AgentConfigObject(agentName, agentData))
  THEN AgentConfigObject(agentName, agentData)
  ELSE Thrown("Invalid agent schema")

\* a plausible slip: the entries are numbered from 0
RECURSIVE menuLines_ZeroBased(_, _)
menuLines_ZeroBased(menuItems, i) ==
  IF i > Len(menuItems) THEN <<>>
  ELSE <<ToString(i - 1), ". **">> \o menuItems[i].trigger \o <<"**: ">>
       \o menuItems[i].description \o <<"\n">> \o menuLines_ZeroBased(menuItems, i + 1)

\* the numbered lines of the menu section
RECURSIVE menuLines(_, _)
menuLines(menuItems, i) ==
  IF i > Len(menuItems) THEN <<>>
  ELSE <<ToString(i), ". **">> \o menuItems[i].trigger \o <<"**: ">>
       \o menuItems[i].description \o <<"\n">> \o menuLines(menuItems, i + 1)

\* KiroCliSetup.generatePrompt (principles is the string parseCompiledAgent produces)
generatePrompt(agentData) ==
  <<"# ">> \o agentData.name \o <<" ">> \o agentData.icon \o <<"\n\n">>
  \o (IF agentData.role # <<>>
      THEN <<"## Role\n">> \o agentData.role \o <<"\n\n">> ELSE <<>>)
  \o (IF agentData.identity # <<>>
      THEN <<"## Identity\n">> \o agentData.identity \o <<"\n\n">> ELSE <<>>)
  \o (IF agentData.communicationStyle # <<>>
      THEN <<"## Communication Style\n">> \o agentData.communicationStyle \o <<"\n\n">>
      ELSE <<>>)
  \o (IF agentData.principles # <<>>
      THEN <<"## Principles\n">> \o agentData.principles \o <<"\n\n">> ELSE <<>>)
  \o (IF Len(agentData.menuItems) > 0
      THEN <<"## Available Workflows\n">> \o menuLines(agentData.menuItems, 1) \o <<"\n">>
      ELSE <<>>)
  \o <<"## Instructions\nYou are ">> \o agentData.name \o <<", part of the BMad Method.\n">>

\* ------------------------------------------------------------------------
\* discoverAllModules.  The input root is its directory listing: a sequence of
\* entries [name, isDirectory, agents], agents telling whether
\* fs.pathExists(<root>/<name>/agents) holds.  failAt is the I/O call that
\* throws: 0 none, 1 the existence check of core/agents, 2 fs.readdir, 2 + i
\* the existence check for entry i.
\* ------------------------------------------------------------------------
Core == <<"c", "o", "r", "e">>

InternalPrefix == <<"_">>

\* fs.pathExists(path.join(bmadDir, 'core', 'agents'))
coreAgentsExists(entries) ==
  \E i \in 1..Len(entries) :
    entries[i].name = Core /\ entries[i].isDirectory /\ entries[i].agents

\* modules after the first if: 'core' when core/agents exists
coreModules(entries) == IF coreAgentsExists(entries) THEN <<Core>> ELSE <<>>

\* a plausible slip: the test for 'core' is left out of the continue condition
skipEntry_KeepCore(entry) == ~entry.isDirectory \/ startsWith(entry.name, InternalPrefix)

\* the continue condition of the loop: non-directories, core and internal directories
skipEntry(entry) ==
  ~entry.isDirectory \/ entry.name = Core \/ startsWith(entry.name, InternalPrefix)

\* a plausible slip: the catch block rethrows
catchDiscover_Rethrow(modules) == [modules |-> <<>>, threw |-> TRUE, warned |-> FALSE]

\* the catch block: a warning, and the modules found so far are returned
catchDiscover(modules) == [modules |-> modules, threw |-> FALSE, warned |-> TRUE]

\* the for loop over the entries, from entry i on
RECURSIVE scanEntries(_, _, _, _)
scanEntries(entries, i, modules, failAt) ==
  IF i > Len(entries) THEN [modules |-> modules, threw |-> FALSE, warned |-> FALSE]
  ELSE IF skipEntry(entries[i]) THEN scanEntries(entries, i + 1, modules, failAt)
  ELSE IF failAt = 2 + i THEN catchDiscover(modules)
  ELSE scanEntries(entries, i + 1,
                   IF entries[i].agents THEN Append(modules, entries[i].name) ELSE modules,
                   failAt)

\* KiroCliSetup.discoverAllModules
discoverAllModules(entries, failAt) ==
  IF failAt = 1 THEN catchDiscover(<<>>)
  ELSE IF failAt = 2 THEN catchDiscover(coreModules(entries))
  ELSE scanEntries(entries, 1, coreModules(entries), failAt)

\* the names an entry of the input root can have
EntryNames == {Core, <<"b", "m", "m">>, <<"c", "i", "s">>, <<"_", "c", "f", "g">>, <<"f">>}

\* the entries of an input root: directories with or without agents/, and files
RootEntries ==
  {e \in [name : EntryNames, isDirectory : BOOLEAN, agents : BOOLEAN] :
     e.agents => e.isDirectory}

\* directory listings: no name twice
Listings ==
  {l \in UNION {[1..k -> RootEntries] : k \in 0..MaxEntries} :
     \A i, j \in 1..Len(l) : i # j => l[i].name # l[j].name}

\* ------------------------------------------------------------------------
\* The inputs of a run
\* ------------------------------------------------------------------------
\* <agent name="PM" title="T"> with a persona (role " R ") and a one-item menu
DocFull ==
  <<"#", "<agent", " ", "name=", QUOTE, "P", "M", QUOTE, " ", "title=", QUOTE, "T", QUOTE, GT,
    "<persona", GT, "<role", GT, " ", "R", " ", "</role", GT, "</persona", GT,
    "<menu", GT, "<item", " ", "cmd=", QUOTE, "c", QUOTE, GT, "D", "</item", GT, "</menu", GT,
    "</agent", GT>>

\* <agent icon="i"> and nothing else
DocAttrsOnly == <<"<agent", " ", " ", "icon=", QUOTE, "i", QUOTE, GT, "</agent", GT>>

\* a document whose <agent> tag has no attributes
DocBareTag == <<"<agent", GT, "<persona", GT, "</persona", GT, "</agent", GT>>

\* the artifacts AgentCommandGenerator.collectAgentArtifacts can hand back
ArtifactPool ==
  {[module |-> Core, name |-> <<"p", "m">>, description |-> <<"d">>, content |-> DocFull],
   [module |-> Core, name |-> <<"P", "M">>, description |-> <<"e">>, content |-> DocAttrsOnly],
   [module |-> Core, name |-> <<"q", "a">>, description |-> <<"d">>, content |-> DocFull],
   [module |-> Core, name |-> <<"n", " ", "o">>, description |-> <<"d">>, content |-> DocBareTag]}

SeqsUpTo(S, n) == UNION {[1..k -> S] : k \in 0..n}

\* workflow artifacts, tasks and tools of the shared generators
Workflows ==
  <<[type |-> "workflow-launcher", name |-> <<"l">>, description |-> <<"d">>, workflowPath |-> <<"p">>],
    [type |-> "workflow-command", name |-> <<"w">>, description |-> <<"d">>, workflowPath |-> <<"p">>]>>
Tasks == <<[name |-> <<"t">>, displayName |-> <<>>, description |-> <<"d">>, path |-> <<"p">>]>>
Tools == <<[name |-> <<"M", "y", " ", "T">>, description |-> <<"d">>, path |-> <<"q">>]>>

\* the input roots of a run: the agent artifacts, with or without workflows, tasks and tools
\* a root whose only module is core, with its agents directory
CoreRoot == <<[name |-> Core, isDirectory |-> TRUE, agents |-> TRUE]>>

\* a root with a module directory and a file, and no agents directory anywhere
NoAgentsRoot ==
  <<[name |-> <<"b", "m", "m">>, isDirectory |-> TRUE, agents |-> FALSE],
    [name |-> <<"f">>, isDirectory |-> FALSE, agents |-> FALSE]>>

\* the listings a root holding the agent artifacts l can have: artifacts need core/agents
RootsOf(l) == IF l = <<>> THEN {<<>>, NoAgentsRoot, CoreRoot} ELSE {CoreRoot}

\* the agent files of a root: no artifact twice
ArtifactLists ==
  {l \in SeqsUpTo(ArtifactPool, MaxArtifacts) : \A i, j \in 1..Len(l) : i # j => l[i] # l[j]}

BmadDirs ==
  UNION {{[entries |-> e, agents |-> l, workflows |-> c[1], tasks |-> c[2], tools |-> c[3]] :
            e \in RootsOf(l),
            c \in {<<<<>>, <<>>, <<>>>>, <<Workflows, Tasks, Tools>>}} :
         l \in ArtifactLists}

\* AgentCommandGenerator.collectAgentArtifacts(bmadDir, allModules): the artifacts of
\* the modules it is given
collectAgentArtifacts(dir, modules) ==
  SelectSeq(dir.agents, LAMBDA a : \E i \in 1..Len(modules) : modules[i] = a.module)

\* ------------------------------------------------------------------------
\* KiroSteeringGenerator.generateAll.  found is the set of steering files whose
\* planning source exists; failAt names the generator whose write throws (0 none).
\* ------------------------------------------------------------------------
\* the number of generators KiroSteeringGenerator.generateAll runs
NumSteeringGenerators == 5

SteeringGenerators ==
  <<"product.md", "tech.md", "structure.md", "bmad-index.md", "bmad-workflows.md">>

\* the generators that return without writing when no source file is found
SourceBacked == {"product.md", "tech.md", "structure.md"}

\* a plausible slip: the index generators also need a source file
writesFile_SourceOnly(g, found) == g \in found

\* whether generator g reaches _writeSteeringFile
writesFile(g, found) == g \notin SourceBacked \/ g \in found

\* generateAll after ensureDir succeeded: the files written, results.generated and the
\* number of results.errors
generateAll(found, failAt) ==
  [written |-> {SteeringGenerators[g] : g \in {h \in 1..NumSteeringGenerators :
                                               /\ writesFile(SteeringGenerators[h], found)
                                               /\ h # failAt}},
   generated |-> IF failAt = 0 THEN NumSteeringGenerators ELSE NumSteeringGenerators - 1,
   errors |-> IF failAt = 0 THEN 0 ELSE 1]

\* what a directory of the target tree can hold before a run
UserAgentFile == <<"u", "s", "e", "r">> \o JsonExt
OldAgentFile == BmadPrefix \o <<"-">> \o Core \o <<"-", "p", "m">> \o JsonExt
OldBareFile == BmadPrefix
UserCommandFile == <<"b", "m", "a">> \o MdExt
OldCommandFile == BmadPrefix \o <<"-", "w">> \o MdExt

\* a file written before the run
OldFile(kind) == [run |-> 0, kind |-> kind, body |-> [old |-> TRUE], partial |-> FALSE]

\* a file written by the run
NewFile(kind, body, partial) == [run |-> 1, kind |-> kind, body |-> body, partial |-> partial]

\* a target tree with both output directories
Tree(A, C, st) ==
  [kiro |-> TRUE, agentsDir |-> TRUE, commandsDir |-> TRUE, steering |-> st,
   agents |-> [n \in A |-> OldFile("agent")], commands |-> [n \in C |-> OldFile("command")]]

\* the target trees a run can find: no .kiro, an empty .kiro, or both output
\* directories with user files, files of an earlier run, or a mix of both
PreTrees ==
  {[kiro |-> FALSE, agentsDir |-> FALSE, commandsDir |-> FALSE, steering |-> FALSE,
    agents |-> <<>>, commands |-> <<>>],
   [kiro |-> TRUE, agentsDir |-> FALSE, commandsDir |-> FALSE, steering |-> FALSE,
    agents |-> <<>>, commands |-> <<>>],
   Tree({}, {}, FALSE),
   Tree({UserAgentFile}, {UserCommandFile}, FALSE),
   Tree({OldAgentFile}, {OldCommandFile}, FALSE),
   Tree({UserAgentFile, OldAgentFile}, {UserCommandFile, OldCommandFile}, FALSE),
   Tree({UserAgentFile, OldAgentFile}, {UserCommandFile, OldCommandFile}, TRUE),
   Tree({UserAgentFile, OldAgentFile, OldBareFile}, {UserCommandFile, OldCommandFile}, TRUE)}

\* ------------------------------------------------------------------------
\* State
\* ------------------------------------------------------------------------
VARIABLES
  bmadExists,      \* <projectDir>/<bmadFolderName> exists
  kiroExists,      \* <projectDir>/.kiro exists
  agentsExists,    \* <projectDir>/.kiro/agents exists
  commandsExists,  \* <projectDir>/.kiro/commands exists
  steeringExists,  \* <projectDir>/.kiro/steering exists
  agents,          \* the entries of .kiro/agents: name -> file
  commands,        \* the entries of .kiro/commands: name -> file
  cwdSteering,     \* <cwd>/.kiro/steering exists, for a cwd that is not projectDir
  steeringFiles,   \* the files the steering generator wrote under <cwd>/.kiro/steering
  faults,          \* the I/O failures of the run so far
  pre,             \* the target tree as the run found it
  bmadDir,         \* the input root handed to setup, as the shared generators see it
  pc,              \* position of setup
  detection,       \* result of detectInstallation
  rmFailed,        \* the removals the last cleanup warned about
  agentArtifacts,  \* result of collectAgentArtifacts
  idx,             \* index of the next artifact of the for loop
  agentCount,
  skippedItems,
  last,            \* how the last processAgentArtifact call ended
  counts,          \* workflowCount, taskCount, toolCount, steering results
  error,           \* the error setup is throwing
  sanIn,           \* sanitizeAgentName: the argument
  sanOut,          \* sanitizeAgentName: the result
  sanPc,
  discRoot,        \* discoverAllModules: the listing of the input root
  discFailAt,      \* discoverAllModules: the I/O call that throws
  discOut,         \* discoverAllModules: the result
  discPc,
  parseDoc,        \* parseCompiledAgent: what the document is made of
  parseContent,    \* parseCompiledAgent: the content argument
  parseOut,        \* parseCompiledAgent: the result
  promptOut,       \* generatePrompt: the result
  parsePc,
  valCfg,          \* validateAgentJson: the kind of value each field of the argument holds
  valOut,          \* validateAgentJson: whether it threw, and the fields its message reports
  valPc

fsVars == <<bmadExists, kiroExists, agentsExists, commandsExists, steeringExists,
            agents, commands, cwdSteering, steeringFiles, faults>>
runVars == <<pre, bmadDir, pc, detection, rmFailed, agentArtifacts, idx, agentCount, skippedItems,
             last, counts, error>>
sanVars == <<sanIn, sanOut, sanPc>>
discVars == <<discRoot, discFailAt, discOut, discPc>>
valVars == <<valCfg, valOut, valPc>>
parseVars == <<parseDoc, parseContent, parseOut, promptOut, parsePc>>
vars == <<fsVars, runVars, sanVars, discVars, parseVars, valVars>>

NoError == "none"
NoLast == [idx |-> 0]
NoCounts == [workflows |-> 0, tasks |-> 0, tools |-> 0, steering |-> 0, steeringErrors |-> 0]

\* ------------------------------------------------------------------------
\* Directories as functions from entry name to file
\* ------------------------------------------------------------------------
EmptyDir == <<>>

Put(dir, name, file) == [n \in DOMAIN dir \cup {name} |-> IF n = name THEN file ELSE dir[n]]

Remove(dir, name) == [n \in DOMAIN dir \ {name} |-> dir[n]]

RemoveAll(dir, names) == [n \in DOMAIN dir \ names |-> dir[n]]

\* fs.writeFile / fs.writeJson: "ok" writes the file; a failed write leaves the
\* directory as it was ("fail") or leaves a truncated file behind ("partial")
WriteOutcomes == {"ok", "fail", "partial"}

\* a plausible slip: the file is opened with the flag 'wx', which leaves an existing
\* file as it is
Write_KeepExisting(dir, name, kind, body, outcome) ==
  IF name \in DOMAIN dir THEN dir
  ELSE CASE outcome = "ok" -> Put(dir, name, NewFile(kind, body, FALSE))
         [] outcome = "partial" -> Put(dir, name, NewFile(kind, body, TRUE))
         [] OTHER -> dir

Write(dir, name, kind, body, outcome) ==
  CASE outcome = "ok" -> Put(dir, name, NewFile(kind, body, FALSE))
    [] outcome = "partial" -> Put(dir, name, NewFile(kind, body, TRUE))
    [] OTHER -> dir

\* ------------------------------------------------------------------------
\* detectInstallation
\* ------------------------------------------------------------------------
\* a plausible slip: the target root is looked at before the input root
detectInstallation_KiroFirst(bmad, kiro) ==
  IF kiro THEN [state |-> "upgrade", canProceed |-> TRUE]
  ELSE IF ~bmad THEN [state |-> "no-bmad", canProceed |-> FALSE]
  ELSE [state |-> "new", canProceed |-> TRUE]

\* a plausible slip: a missing input root does not stop the run
detectInstallation_AlwaysProceed(bmad, kiro) ==
  IF ~bmad THEN [state |-> "no-bmad", canProceed |-> TRUE]
  ELSE IF kiro THEN [state |-> "upgrade", canProceed |-> TRUE]
  ELSE [state |-> "new", canProceed |-> TRUE]

\* KiroCliSetup.detectInstallation, from bmadExists and kiroExists
detectInstallation(bmad, kiro) ==
  IF ~bmad THEN [state |-> "no-bmad", canProceed |-> FALSE]
  ELSE IF kiro THEN [state |-> "upgrade", canProceed |-> TRUE]
  ELSE [state |-> "new", canProceed |-> TRUE]

\* ------------------------------------------------------------------------
\* cleanup
\* ------------------------------------------------------------------------
\* a plausible slip: a shorter prefix
bmadFiles_ShortPrefix(dir) == {f \in DOMAIN dir : startsWith(f, <<"b", "m", "a">>)}

\* files.filter((f) => f.startsWith('bmad'))
bmadFiles(dir) == {f \in DOMAIN dir : startsWith(f, BmadPrefix)}

\* a plausible slip: the loop stops at the first removal that fails
cleanDir_StopAtFailure(dir, failing) ==
  IF failing = {} THEN RemoveAll(dir, bmadFiles(dir)) ELSE dir

\* the for loop over bmadFiles: every file is removed but those whose removal fails
cleanDir(dir, failing) == RemoveAll(dir, bmadFiles(dir) \ failing)

\* ------------------------------------------------------------------------
\* processAgentArtifact
\* ------------------------------------------------------------------------
\* the outcomes of the I/O operations of one call: the source read, the two
\* writes, the two removals of the catch block
ProcessEnvs ==
  {e \in [read : BOOLEAN, writePrompt : WriteOutcomes, writeJson : WriteOutcomes,
          removePrompt : BOOLEAN, removeJson : BOOLEAN] :
     /\ ~e.read => e.writePrompt = "ok" /\ e.writeJson = "ok" /\ e.removePrompt /\ e.removeJson
     /\ e.writePrompt # "ok" => e.writeJson = "ok"}

\* What processAgentArtifact computes from an artifact alone, tabulated over the
\* pool: the parsed record, the sanitized `bmad-${artifact.module}-${artifact.name}`,
\* the configuration and the prompt
ParsedArtifacts == [a \in ArtifactPool |-> parseCompiledAgent(a.content, a)]

AgentStems ==
  [a \in ArtifactPool |-> sanitizeAgentName(BmadPrefix \o <<"-">> \o a.module \o <<"-">> \o a.name)]

AgentConfigs ==
  [a \in ArtifactPool |->
     IF ParsedArtifacts[a] = NullRecord THEN NullRecord
     ELSE createAgentConfig(AgentStems[a], ParsedArtifacts[a])]

PromptContents ==
  [a \in ArtifactPool |->
     IF ParsedArtifacts[a] = NullRecord THEN <<>> ELSE generatePrompt(ParsedArtifacts[a])]

AgentStem(artifact) == AgentStems[artifact]

\* a plausible slip: the JSON file is named after the artifact alone
JsonPath_RawName(artifact) == artifact.name \o JsonExt

\* path.join(agentsDir, `${sanitizedAgentName}.json`), relative to agentsDir
JsonPath(artifact) == AgentStems[artifact] \o JsonExt

\* path.join(agentsDir, `${sanitizedAgentName}-prompt.md`), relative to agentsDir
PromptPath(artifact) == AgentStems[artifact] \o PromptExt

\* the try block: content generation, then the two writes
tryBlock(jsonPath, promptPath, agentConfig, promptContent, dir, env) ==
  IF IsThrown(agentConfig)
  THEN [agents |-> dir, threw |-> TRUE, message |-> "schema", used |-> 0]
  ELSE IF env.writePrompt # "ok"
  THEN [agents |-> Write(dir, promptPath, "prompt", [text |-> promptContent], env.writePrompt),
        threw |-> TRUE, message |-> "writePrompt", used |-> 1]
  ELSE [agents |-> Write(Write(dir, promptPath, "prompt", [text |-> promptContent], "ok"),
                         jsonPath, "json", agentConfig, env.writeJson),
        threw |-> env.writeJson # "ok",
        message |-> IF env.writeJson # "ok" THEN "writeJson" ELSE "",
        used |-> IF env.writeJson # "ok" THEN 1 ELSE 0]

\* the removals of the catch block that fail: only a removal of a file that exists can
failedRemovals(jsonPath, promptPath, dir, env) ==
  {n \in {promptPath} : n \in DOMAIN dir /\ ~env.removePrompt}
  \cup {n \in {jsonPath} : n \in DOMAIN dir /\ ~env.removeJson}

\* the catch block: both files are removed, failures of the removals are swallowed
catchBlock(jsonPath, promptPath, dir, env) ==
  RemoveAll(dir, {promptPath, jsonPath} \ failedRemovals(jsonPath, promptPath, dir, env))

\* how processAgentArtifact ends once the try block has ended as t
afterTry(jsonPath, promptPath, t, env) ==
  IF t.threw
  THEN [agents |-> catchBlock(jsonPath, promptPath, t.agents, env),
        outcome |-> "threw", message |-> t.message,
        used |-> t.used + Cardinality(failedRemovals(jsonPath, promptPath, t.agents, env)),
        rmFailed |-> failedRemovals(jsonPath, promptPath, t.agents, env)]
  ELSE [agents |-> t.agents, outcome |-> "ok", message |-> "", used |-> 0, rmFailed |-> {}]

\* KiroCliSetup.processAgentArtifact on the agents directory dir
processAgentArtifact(artifact, dir, env) ==
  IF ~env.read
  THEN [agents |-> dir, outcome |-> "threw", message |-> "read", used |-> 1, rmFailed |-> {}]
  ELSE IF ParsedArtifacts[artifact] = NullRecord
  THEN [agents |-> dir, outcome |-> "null", message |-> "", used |-> 0, rmFailed |-> {}]
  ELSE afterTry(JsonPath(artifact), PromptPath(artifact),
                tryBlock(JsonPath(artifact), PromptPath(artifact), AgentConfigs[artifact],
                         PromptContents[artifact], dir, env),
                env)

\* ------------------------------------------------------------------------
\* Command files
\* ------------------------------------------------------------------------
\* `bmad-${name}.md`
CommandFileName(name) == BmadPrefix \o <<"-">> \o name \o MdExt

\* generateWorkflowCommandContent / generateTaskCommandContent / generateToolCommandContent
CommandContent(title, description, loadPath) ==
  <<"# ">> \o title \o <<"\n\n">> \o description \o <<"\n\nLOAD @">> \o loadPath \o <<"\n">>

\* the entries generateWorkflowCommands writes: the artifacts of type workflow-command
RECURSIVE WorkflowEntries(_)
WorkflowEntries(artifacts) ==
  IF artifacts = <<>> THEN <<>>
  ELSE (IF Head(artifacts).type = "workflow-command"
        THEN <<[file |-> CommandFileName(Head(artifacts).name),
                content |-> CommandContent(Head(artifacts).name, Head(artifacts).description,
                                           Head(artifacts).workflowPath)]>>
        ELSE <<>>)
       \o WorkflowEntries(Tail(artifacts))

\* the entries generateTaskCommands writes
TaskEntries(tasks) ==
  [i \in 1..Len(tasks) |->
     [file |-> CommandFileName(tasks[i].name),
      content |-> CommandContent(IF tasks[i].displayName # <<>> THEN tasks[i].displayName
                                 ELSE tasks[i].name,
                                 tasks[i].description, tasks[i].path)]]

\* the entries generateToolCommands writes
ToolEntries(tools) ==
  [i \in 1..Len(tools) |->
     [file |-> CommandFileName(tools[i].name),
      content |-> CommandContent(tools[i].name, tools[i].description, tools[i].path)]]

\* the outcomes of the I/O of one generate...Commands call: the collection, and
\* the index of the write that fails (0: none) with what it leaves behind
CommandEnvs ==
  {e \in [collect : BOOLEAN, failAt : 0..1, failure : {"fail", "partial"}] :
     /\ ~e.collect => e.failAt = 0
     /\ e.failAt = 0 => e.failure = "fail"}

\* the for loop of fs.writeFile calls, from entry i on
RECURSIVE writeCommandFiles(_, _, _, _)
writeCommandFiles(dir, entries, i, env) ==
  IF i > Len(entries) THEN [commands |-> dir, count |-> i - 1, threw |-> FALSE]
  ELSE IF env.failAt = i
  THEN [commands |-> Write(dir, entries[i].file, "command", [text |-> entries[i].content],
                           env.failure),
        count |-> i - 1, threw |-> TRUE]
  ELSE writeCommandFiles(Write(dir, entries[i].file, "command", [text |-> entries[i].content],
                               "ok"),
                         entries, i + 1, env)

\* a plausible slip: a failed write is swallowed and the loop goes on
generateCommands_Swallow(dir, entries, env) ==
  LET r == writeCommandFiles(dir, entries, 1, env)
  IN IF ~env.collect THEN [commands |-> dir, count |-> 0, threw |-> FALSE, used |-> 1]
     ELSE [commands |-> r.commands, count |-> r.count, threw |-> FALSE,
           used |-> IF r.threw THEN 1 ELSE 0]

\* generateWorkflowCommands / generateTaskCommands / generateToolCommands on the
\* entries the collected items give: no failure is caught
generateCommands(dir, entries, env) ==
  LET r == writeCommandFiles(dir, entries, 1, env)
  IN IF ~env.collect THEN [commands |-> dir, count |-> 0, threw |-> TRUE, used |-> 1]
     ELSE [commands |-> r.commands, count |-> r.count, threw |-> r.threw,
           used |-> IF r.threw THEN 1 ELSE 0]

\* ------------------------------------------------------------------------
\* Initial states: a target tree and input root as a run can find them
\* ------------------------------------------------------------------------
TypeRun ==
  /\ pc = "start"
  /\ detection = NullRecord
  /\ rmFailed = [agents |-> {}, commands |-> {}, steering |-> FALSE]
  /\ agentArtifacts = <<>>
  /\ idx = 1
  /\ agentCount = 0
  /\ skippedItems = <<>>
  /\ last = NoLast
  /\ counts = NoCounts
  /\ error = NoError
  /\ faults = 0

SanIdle ==
  /\ sanIn = <<>>
  /\ sanOut = <<>>
  /\ sanPc = "idle"

DiscIdle ==
  /\ discRoot = <<>>
  /\ discFailAt = 0
  /\ discOut = [modules |-> <<>>, threw |-> FALSE, warned |-> FALSE]
  /\ discPc = "idle"

ValIdle ==
  /\ valCfg = ValidShape
  /\ valOut = NoThrow
  /\ valPc = "idle"

ParseIdle ==
  /\ parseDoc = NoDoc
  /\ parseContent = <<>>
  /\ parseOut = NullRecord
  /\ promptOut = <<>>
  /\ parsePc = "idle"

Init ==
  /\ bmadExists \in BOOLEAN
  /\ pre \in PreTrees
  /\ bmadDir \in BmadDirs
  /\ kiroExists = pre.kiro
  /\ agentsExists = pre.agentsDir
  /\ commandsExists = pre.commandsDir
  /\ steeringExists = pre.steering
  /\ agents = pre.agents
  /\ commands = pre.commands
  /\ cwdSteering = FALSE
  /\ steeringFiles = {}
  /\ TypeRun
  /\ SanIdle
  /\ DiscIdle
  /\ ParseIdle
  /\ ValIdle

\* ------------------------------------------------------------------------
\* setup, one action per step between two awaits
\* ------------------------------------------------------------------------
\* detectInstallation, and the throw when the run cannot proceed
Detect ==
  /\ pc = "start"
  /\ detection' = detectInstallation(bmadExists, kiroExists)
  /\ IF detection'.canProceed
     THEN pc' = "cleanup" /\ error' = error
     ELSE pc' = "catch" /\ error' = "required"
  /\ UNCHANGED <<fsVars, pre, bmadDir, rmFailed, agentArtifacts, idx, agentCount, skippedItems, last,
                 counts, sanVars, discVars, parseVars, valVars>>

\* cleanup(projectDir): called first in the try block (from "cleanup") and again in
\* the catch block (from "catch")
Cleanup(from, to) ==
  /\ pc = from
  /\ \E fa \in SUBSET bmadFiles(agents), fc \in SUBSET bmadFiles(commands),
        fsteer \in {b \in BOOLEAN : b => steeringExists} :
       /\ faults + Cardinality(fa) + Cardinality(fc) + (IF fsteer THEN 1 ELSE 0) <= MaxFaults
       /\ faults' = faults + Cardinality(fa) + Cardinality(fc) + (IF fsteer THEN 1 ELSE 0)
       /\ agents' = cleanDir(agents, fa)
       /\ commands' = cleanDir(commands, fc)
       /\ steeringExists' = fsteer
       /\ rmFailed' = [agents |-> fa, commands |-> fc, steering |-> fsteer]
  /\ pc' = to
  /\ UNCHANGED <<bmadExists, kiroExists, agentsExists, commandsExists, cwdSteering, steeringFiles, pre,
                 bmadDir, detection, agentArtifacts, idx, agentCount, skippedItems, last, counts, error,
                 sanVars, discVars, parseVars, valVars>>

\* a plausible slip: the call is not awaited, so its removals can still run while the
\* agent artifacts are processed
InitialCleanup_NotAwaited == Cleanup("cleanup", "ensureDirs") \/ Cleanup("agents", "agents")

\* await this.cleanup(projectDir) at the start of the try block
InitialCleanup == Cleanup("cleanup", "ensureDirs")

\* a plausible slip: the catch block rethrows without the cleanup
CatchCleanup_RethrowOnly ==
  /\ pc = "catch"
  /\ pc' = "thrown"
  /\ UNCHANGED <<fsVars, pre, bmadDir, detection, rmFailed, agentArtifacts, idx, agentCount,
                 skippedItems, last, counts, error, sanVars, discVars, parseVars, valVars>>

\* the catch block of setup: cleanup, then the error is rethrown
CatchCleanup == Cleanup("catch", "thrown")

\* ensureDir(agentsDir); ensureDir(commandsDir)
EnsureDirs ==
  /\ pc = "ensureDirs"
  /\ \E outcome \in {"ok", "failAgents", "failAgentsKiroMade", "failCommands"} :
       /\ outcome # "ok" => faults < MaxFaults
       /\ faults' = IF outcome = "ok" THEN faults ELSE faults + 1
       /\ kiroExists' = (kiroExists \/ outcome # "failAgents")
       /\ agentsExists' = (agentsExists \/ outcome \in {"ok", "failCommands"})
       /\ commandsExists' = (commandsExists \/ outcome = "ok")
       /\ IF outcome = "ok"
          THEN pc' = "collect" /\ error' = error
          ELSE pc' = "catch" /\ error' = "ensureDir"
  /\ UNCHANGED <<bmadExists, steeringExists, agents, commands, cwdSteering, steeringFiles, pre, bmadDir,
                 detection, rmFailed, agentArtifacts, idx, agentCount, skippedItems, last, counts, sanVars, discVars, parseVars, valVars>>

\* discoverAllModules (which never throws) and collectAgentArtifacts
CollectAgentArtifacts ==
  /\ pc = "collect"
  /\ \E failAt \in 0..(2 + Len(bmadDir.entries)) :
       \E d \in {discoverAllModules(bmadDir.entries, failAt)} :
         /\ d.warned = (failAt # 0)
         /\ d.warned => faults < MaxFaults
         /\ \/ /\ agentArtifacts' = collectAgentArtifacts(bmadDir, d.modules)
               /\ pc' = IF agentArtifacts' = <<>> THEN "workflows" ELSE "agents"
               /\ faults' = IF d.warned THEN faults + 1 ELSE faults
               /\ error' = error
            \/ /\ ~d.warned
               /\ faults < MaxFaults
               /\ faults' = faults + 1
               /\ pc' = "catch"
               /\ error' = "collect"
               /\ UNCHANGED agentArtifacts
  /\ UNCHANGED <<bmadExists, kiroExists, agentsExists, commandsExists, steeringExists, agents,
                 commands, cwdSteering, steeringFiles, pre, bmadDir, detection, rmFailed, idx, agentCount,
                 skippedItems, last, counts, sanVars, discVars, parseVars, valVars>>

\* a plausible slip: the failure of one artifact escapes the loop
afterArtifact_Rethrow(threw, i, n) ==
  IF threw THEN "catch" ELSE IF i + 1 > n THEN "workflows" ELSE "agents"

\* where setup goes on after artifact i of n: the try/catch inside the loop keeps a
\* failure of processAgentArtifact from leaving it
afterArtifact(threw, i, n) == IF i + 1 > n THEN "workflows" ELSE "agents"

\* one iteration of the for loop over agentArtifacts: processAgentArtifact in its
\* try/catch
ProcessArtifact ==
  /\ pc = "agents"
  /\ idx <= Len(agentArtifacts)
  /\ \E env \in ProcessEnvs :
       \E r \in {processAgentArtifact(agentArtifacts[idx], agents, env)} :
          /\ faults + r.used <= MaxFaults
          /\ faults' = faults + r.used
          /\ agents' = r.agents
          /\ last' = [idx |-> idx, outcome |-> r.outcome, message |-> r.message,
                      rmFailed |-> r.rmFailed]
          /\ IF r.outcome = "threw"
             THEN /\ agentCount' = agentCount
                  /\ skippedItems' = Append(skippedItems,
                                            [type |-> "agent", name |-> agentArtifacts[idx].name,
                                             reason |-> r.message])
             ELSE /\ agentCount' = agentCount + 1
                  /\ skippedItems' = skippedItems
          /\ pc' = afterArtifact(r.outcome = "threw", idx, Len(agentArtifacts))
  /\ idx' = idx + 1
  /\ error' = IF pc' = "catch" THEN "agent" ELSE error
  /\ UNCHANGED <<bmadExists, kiroExists, agentsExists, commandsExists, steeringExists, commands,
                 cwdSteering, steeringFiles, pre, bmadDir, detection, rmFailed, agentArtifacts, counts,
                 sanVars, discVars, parseVars, valVars>>

\* a generate...Commands call of setup
GenerateCommands(from, to, entries, field) ==
  /\ pc = from
  /\ \E env \in CommandEnvs :
       \E r \in {generateCommands(commands, entries, env)} :
          /\ env.failAt <= Len(entries)
          /\ faults + r.used <= MaxFaults
          /\ faults' = faults + r.used
          /\ commands' = r.commands
          /\ IF r.threw
             THEN pc' = "catch" /\ error' = "commands" /\ counts' = counts
             ELSE pc' = to /\ error' = error /\ counts' = [counts EXCEPT ![field] = r.count]
  /\ UNCHANGED <<bmadExists, kiroExists, agentsExists, commandsExists, steeringExists, agents,
                 cwdSteering, steeringFiles, pre, bmadDir, detection, rmFailed, agentArtifacts, idx,
                 agentCount, skippedItems, last, sanVars, discVars, parseVars, valVars>>

GenerateWorkflowCommands ==
  GenerateCommands("workflows", "tasks", WorkflowEntries(bmadDir.workflows), "workflows")

GenerateTaskCommands ==
  GenerateCommands("tasks", "tools", TaskEntries(bmadDir.tasks), "tasks")

GenerateToolCommands ==
  GenerateCommands("tools", "steering", ToolEntries(bmadDir.tools), "tools")

\* generateSteeringFiles and displayInstallationSummary: generateAll catches every
\* error; it writes under <cwd>/.kiro/steering
GenerateSteeringFiles ==
  /\ pc = "steering"
  /\ \E cwdIsProject \in BOOLEAN, ensured \in BOOLEAN, found \in {{}, SourceBacked},
        failAt \in 0..NumSteeringGenerators :
       \E r \in {generateAll(found, failAt)} :
         /\ ~ensured => (failAt = 0 /\ found = {})
         /\ failAt # 0 => writesFile(SteeringGenerators[failAt], found)
         /\ (~ensured \/ failAt # 0) => faults < MaxFaults
         /\ faults' = IF ensured /\ failAt = 0 THEN faults ELSE faults + 1
         /\ steeringExists' = (steeringExists \/ (cwdIsProject /\ ensured))
         /\ cwdSteering' = (cwdSteering \/ (~cwdIsProject /\ ensured))
         /\ steeringFiles' = IF ensured THEN r.written ELSE {}
         /\ counts' = [counts EXCEPT !.steering = IF ensured THEN r.generated ELSE 0,
                                     !.steeringErrors = IF ensured THEN r.errors ELSE 1]
  /\ pc' = "done"
  /\ UNCHANGED <<bmadExists, kiroExists, agentsExists, commandsExists, agents, commands, pre,
                 bmadDir, detection, rmFailed, agentArtifacts, idx, agentCount, skippedItems,
                 last, error, sanVars, discVars, parseVars, valVars>>

Next ==
  \/ Detect
  \/ InitialCleanup
  \/ EnsureDirs
  \/ CollectAgentArtifacts
  \/ ProcessArtifact
  \/ GenerateWorkflowCommands
  \/ GenerateTaskCommands
  \/ GenerateToolCommands
  \/ GenerateSteeringFiles
  \/ CatchCleanup

Spec == Init /\ [][Next]_vars

\* ------------------------------------------------------------------------
\* sanitizeAgentName on its own: every string over SanChars up to MaxLen
\* ------------------------------------------------------------------------
SanChars == {"a", "Z", "9", "-", " ", "\t", "!", "_"}

Idle ==
  /\ bmadExists = FALSE
  /\ pre = Tree({}, {}, FALSE)
  /\ bmadDir = [entries |-> <<>>, agents |-> <<>>, workflows |-> <<>>, tasks |-> <<>>,
                tools |-> <<>>]
  /\ kiroExists = pre.kiro
  /\ agentsExists = pre.agentsDir
  /\ commandsExists = pre.commandsDir
  /\ steeringExists = pre.steering
  /\ agents = pre.agents
  /\ commands = pre.commands
  /\ cwdSteering = FALSE
  /\ steeringFiles = {}
  /\ TypeRun

SanInit ==
  /\ Idle
  /\ sanIn \in SeqsUpTo(SanChars, MaxLen)
  /\ sanOut = <<>>
  /\ sanPc = "call"
  /\ DiscIdle
  /\ ParseIdle
  /\ ValIdle

SanCall ==
  /\ sanPc = "call"
  /\ sanOut' = sanitizeAgentName(sanIn)
  /\ sanPc' = "done"
  /\ UNCHANGED <<fsVars, runVars, sanIn, discVars, parseVars, valVars>>

\* sanitizeAgentName called on its own result
SanAgain ==
  /\ sanPc = "done"
  /\ sanIn' = sanOut
  /\ sanOut' = sanitizeAgentName(sanOut)
  /\ sanPc' = "again"
  /\ UNCHANGED <<fsVars, runVars, discVars, parseVars, valVars>>

SanNext == SanCall \/ SanAgain

SpecSanitize == SanInit /\ [][SanNext]_vars

\* ------------------------------------------------------------------------
\* discoverAllModules on its own: every listing up to MaxEntries, every failure
\* ------------------------------------------------------------------------
DiscInit ==
  /\ Idle
  /\ SanIdle
  /\ discRoot \in Listings
  /\ discFailAt \in 0..(2 + MaxEntries)
  /\ discOut = [modules |-> <<>>, threw |-> FALSE, warned |-> FALSE]
  /\ discPc = "call"
  /\ ParseIdle
  /\ ValIdle

DiscCall ==
  /\ discPc = "call"
  /\ discOut' = discoverAllModules(discRoot, discFailAt)
  /\ discPc' = "done"
  /\ UNCHANGED <<fsVars, runVars, sanVars, discRoot, discFailAt, parseVars, valVars>>

SpecDiscover == DiscInit /\ [][DiscCall]_vars

\* ------------------------------------------------------------------------
\* parseCompiledAgent and generatePrompt on their own
\* ------------------------------------------------------------------------
\* the artifact that comes with the document
ParseArtifact ==
  [module |-> Core, name |-> <<"p", "m">>, description |-> <<"d">>, content |-> <<>>]

ParseInit ==
  /\ Idle
  /\ SanIdle
  /\ DiscIdle
  /\ parseDoc \in Docs
  /\ parseContent = Render(parseDoc)
  /\ parseOut = NullRecord
  /\ promptOut = <<>>
  /\ parsePc = "call"
  /\ ValIdle

ParseCall ==
  /\ parsePc = "call"
  /\ parseOut' = parseCompiledAgent(parseContent, ParseArtifact)
  /\ parsePc' = "parsed"
  /\ UNCHANGED <<fsVars, runVars, sanVars, discVars, parseDoc, parseContent, promptOut, valVars>>

\* generatePrompt on the record parseCompiledAgent returned
PromptCall ==
  /\ parsePc = "parsed"
  /\ parseOut # NullRecord
  /\ promptOut' = generatePrompt(parseOut)
  /\ parsePc' = "prompted"
  /\ UNCHANGED <<fsVars, runVars, sanVars, discVars, parseDoc, parseContent, parseOut, valVars>>

ParseNext == ParseCall \/ PromptCall

SpecParse == ParseInit /\ [][ParseNext]_vars

\* ------------------------------------------------------------------------
\* validateAgentJson on its own
\* ------------------------------------------------------------------------
ValInit ==
  /\ Idle
  /\ SanIdle
  /\ DiscIdle
  /\ ParseIdle
  /\ valCfg \in ValConfigs
  /\ valOut = NoThrow
  /\ valPc = "call"

ValCall ==
  /\ valPc = "call"
  /\ \E errors \in ajvErrors(valCfg, AjvOptions) : valOut' = validateAgentJson(errors)
  /\ valPc' = "done"
  /\ UNCHANGED <<fsVars, runVars, sanVars, discVars, parseVars, valCfg>>

SpecValidate == ValInit /\ [][ValCall]_vars

\* ------------------------------------------------------------------------
\* Properties
\* ------------------------------------------------------------------------
\* the artifact the last processAgentArtifact call was given
LastArtifact == agentArtifacts[last.idx]

\* processAgentArtifact has just finished and nothing has touched the agents directory since
JustProcessed == pc \in {"agents", "workflows"} /\ last.idx # 0

\* the document holds an opening <agent ...> tag with attributes: "<agent", whitespace,
\* at least one more character, then the first ">"
HasAttrTag(doc) ==
  \E p \in 1..Len(doc), q \in 1..Len(doc) :
    /\ doc[p] = "<agent"
    /\ q >= p + 3
    /\ IsSpace(doc[p + 1])
    /\ doc[q] = GT
    /\ \A k \in (p + 1)..(q - 1) : doc[k] # GT

\* the source of the last artifact was read and holds an <agent ...> tag
LastHadTag == JustProcessed /\ last.message # "read" /\ HasAttrTag(LastArtifact.content)

\* C1 as stated: whenever processAgentArtifact finishes for an artifact whose source
\* holds an <agent ...> tag, whatever the writes and removals did, the agents directory
\* holds both files of the unit or neither
C1_BothOrNeither ==
  LastHadTag =>
    (JsonPath(LastArtifact) \in DOMAIN agents <=> PromptPath(LastArtifact) \in DOMAIN agents)

\* the JSON configuration files this run wrote into the agents directory
WrittenConfigs == {n \in DOMAIN agents : agents[n].run = 1 /\ agents[n].kind = "json"}

\* C2: createAgentConfig returns no configuration that fails validation, every JSON
\* configuration the run wrote passes validation, and a unit whose configuration fails
\* validation gets neither of its files written
C2_OnlyValidatedConfigsWritten ==
  /\ \A a \in ArtifactPool :
       ParsedArtifacts[a] # NullRecord =>
         \/ IsThrown(AgentConfigs[a])
         \/ validate(AgentConfigs[a])
  /\ \A n \in WrittenConfigs : validate(agents[n].body)
  /\ (JustProcessed /\ last.message = "schema") =>
       \A f \in {JsonPath(LastArtifact), PromptPath(LastArtifact)} :
         f \in DOMAIN agents => agents[f].run = 0

\* C2 witness: one unit was written with a validated configuration and the next one was
\* rejected by the schema
C2_Witness ==
  /\ JustProcessed
  /\ last.message = "schema"
  /\ WrittenConfigs # {}

\* C3: for a document without an opening <agent ...> tag with attributes,
\* parseCompiledAgent returns null and processAgentArtifact leaves the agents directory
\* as it was
C3_NoTagNoFiles ==
  [][(pc = "agents" /\ idx' = idx + 1 /\ ~HasAttrTag(agentArtifacts[idx].content)) =>
       /\ parseCompiledAgent(agentArtifacts[idx].content, agentArtifacts[idx]) = NullRecord
       /\ agents' = agents
       /\ last'.outcome # "ok"
       /\ last'.outcome = "threw" => last'.message = "read"]_vars

\* C3 witness: a document with a bare <agent> tag was processed and skipped
C3_Witness ==
  /\ JustProcessed
  /\ last.outcome = "null"
  /\ ~HasAttrTag(LastArtifact.content)
  /\ "<agent" \in Range(LastArtifact.content)

\* no removal of the cleanup failed
NoRemovalFailed(r) == r.agents = {} /\ r.commands = {} /\ ~r.steering

\* the entries of dir whose name starts with 'bmad'
Prefixed(dir) == {n \in DOMAIN dir : startsWith(n, BmadPrefix)}

\* C4: after a cleanup whose removals all succeed no entry starting with 'bmad' is left
\* in .kiro/agents or .kiro/commands, and every other entry is still there, unchanged
C4_CleanupRemovesPrefixedOnly ==
  [][(pc \in {"cleanup", "catch"} /\ pc' # pc /\ NoRemovalFailed(rmFailed')) =>
       /\ Prefixed(agents') = {}
       /\ Prefixed(commands') = {}
       /\ \A n \in DOMAIN agents \ Prefixed(agents) : n \in DOMAIN agents' /\ agents'[n] = agents[n]
       /\ \A n \in DOMAIN commands \ Prefixed(commands) :
            n \in DOMAIN commands' /\ commands'[n] = commands[n]
       /\ DOMAIN agents' \subseteq DOMAIN agents
       /\ DOMAIN commands' \subseteq DOMAIN commands]_vars

\* C4 witness: the first cleanup ran on directories holding user files and 'bmad' files,
\* and only the user files are left
C4_Witness ==
  /\ pc = "ensureDirs"
  /\ NoRemovalFailed(rmFailed)
  /\ Prefixed(pre.agents) # {} /\ Prefixed(pre.commands) # {}
  /\ DOMAIN agents = {UserAgentFile}
  /\ DOMAIN commands = {UserCommandFile}

\* the run found a user file and a generated file in each output directory
FoundUserAndGenerated ==
  /\ {UserAgentFile, OldAgentFile} \subseteq DOMAIN pre.agents
  /\ {UserCommandFile, OldCommandFile} \subseteq DOMAIN pre.commands

\* the user files of the tree the run found are still there, unchanged
UserFilesUntouched ==
  /\ \A n \in DOMAIN pre.agents \ Prefixed(pre.agents) :
       n \in DOMAIN agents /\ agents[n] = pre.agents[n]
  /\ \A n \in DOMAIN pre.commands \ Prefixed(pre.commands) :
       n \in DOMAIN commands /\ commands[n] = pre.commands[n]

\* the 'bmad' entries of dir that still hold what an earlier run wrote
Stale(dir) == {n \in Prefixed(dir) : dir[n].run = 0}

\* C5 as stated: after a successful setup on such a tree the user files are unchanged and
\* no 'bmad' file holds content from before the run
C5_NoStaleFileSurvives ==
  (pc = "done" /\ FoundUserAndGenerated) =>
    /\ UserFilesUntouched
    /\ Stale(agents) = {}
    /\ Stale(commands) = {}

\* C5 amended: after a successful setup on such a tree the user files are unchanged and
\* a 'bmad' file holds content from before the run only if the cleanup failed to remove it
C5_StaleOnlyIfRemovalFailed ==
  (pc = "done" /\ FoundUserAndGenerated) =>
    /\ UserFilesUntouched
    /\ Stale(agents) \subseteq rmFailed.agents
    /\ Stale(commands) \subseteq rmFailed.commands

\* C5 witness: the run ended, the user files are there and the two generated files of the
\* earlier run have been replaced by files of this run
C5_Witness ==
  /\ pc = "done"
  /\ FoundUserAndGenerated
  /\ OldAgentFile \in DOMAIN agents /\ agents[OldAgentFile].run = 1
  /\ OldCommandFile \in DOMAIN commands /\ commands[OldCommandFile].run = 1
  /\ UserAgentFile \in DOMAIN agents
  /\ UserCommandFile \in DOMAIN commands

\* nothing is in the target tree that the run did not find there
NothingCreated ==
  /\ kiroExists => pre.kiro
  /\ agentsExists => pre.agentsDir
  /\ commandsExists => pre.commandsDir
  /\ steeringExists => pre.steering
  /\ ~cwdSteering
  /\ \A n \in DOMAIN agents : n \in DOMAIN pre.agents /\ agents[n] = pre.agents[n]
  /\ \A n \in DOMAIN commands : n \in DOMAIN pre.commands /\ commands[n] = pre.commands[n]

\* C6: when the input root is missing setup goes from the detection straight to the
\* throw of the "required" error, and creates no file or directory
C6_MissingRootThrows ==
  ~bmadExists =>
    /\ pc \in {"start", "catch", "thrown"}
    /\ pc # "start" => error = "required"
    /\ NothingCreated

\* C6 witness: setup has thrown for a missing input root, on a tree that has a .kiro
C6_Witness ==
  /\ ~bmadExists
  /\ pc = "thrown"
  /\ error = "required"
  /\ pre.kiro

\* C7: when processAgentArtifact throws, setup stays in the loop: the artifact is added
\* to the skipped items with the reason, it is not counted, no error is raised, and the
\* loop ends only after the last artifact
C7_FailureStaysInLoop ==
  [][(pc = "agents" /\ idx' = idx + 1) =>
       /\ error' = NoError
       /\ pc' = (IF idx < Len(agentArtifacts) THEN "agents" ELSE "workflows")
       /\ last'.outcome = "threw" =>
            /\ skippedItems' = Append(skippedItems,
                                      [type |-> "agent", name |-> agentArtifacts[idx].name,
                                       reason |-> last'.message])
            /\ agentCount' = agentCount
       /\ last'.outcome # "threw" => skippedItems' = skippedItems]_vars

\* C7 witness: the first artifact threw and was skipped, the second one was processed and
\* written, and setup went on to the workflows
C7_Witness ==
  /\ pc = "workflows"
  /\ Len(agentArtifacts) = 2
  /\ Len(skippedItems) = 1
  /\ skippedItems[1].name = agentArtifacts[1].name
  /\ last.idx = 2
  /\ last.outcome = "ok"
  /\ agentCount = 1

\* the command files the workflows, tasks and tools of the input root call for
ExpectedCommands ==
  Range(WorkflowEntries(bmadDir.workflows)) \cup Range(TaskEntries(bmadDir.tasks))
    \cup Range(ToolEntries(bmadDir.tools))

C9_DetectionByRootThenKiro ==
  [][(pc = "start" /\ pc' # "start") =>
       /\ detection'.state = "no-bmad" <=> ~bmadExists
       /\ detection'.canProceed <=> bmadExists
       /\ (bmadExists /\ kiroExists) => detection'.state = "upgrade"
       /\ (bmadExists /\ ~kiroExists) => detection'.state = "new"
       /\ UNCHANGED fsVars]_vars

\* C9 witness: the detection answered 'no-bmad' on a tree that has a .kiro
C9_Witness ==
  /\ detection # NullRecord
  /\ detection.state = "no-bmad"
  /\ ~detection.canProceed
  /\ kiroExists

\* the sanitized string, character by character: a whitespace character gives a hyphen
\* when it starts a run of whitespace and nothing otherwise, any other character gives
\* its lower-case form when that is in [a-z0-9-] and nothing otherwise
RECURSIVE Sanitized(_, _)
Sanitized(s, i) ==
  IF i > Len(s) THEN <<>>
  ELSE (IF IsSpace(s[i])
        THEN (IF i > 1 /\ IsSpace(s[i - 1]) THEN <<>> ELSE <<"-">>)
        ELSE IF LowerChar(s[i]) \in Range(LowerChars) \cup DigitChars \cup {"-"}
        THEN <<LowerChar(s[i])>>
        ELSE <<>>)
       \o Sanitized(s, i + 1)

\* C10: sanitizeAgentName lower-cases, turns each maximal whitespace run into one hyphen,
\* then deletes what is outside [a-z0-9-]; 'Test Agent Name!@#' gives 'test-agent-name'
C10_SanitizeRule ==
  /\ sanPc = "done" => sanOut = Sanitized(sanIn, 1)
  /\ sanitizeAgentName(<<"T", "e", "s", "t", " ", "A", "g", "e", "n", "t", " ",
                         "N", "a", "m", "e", "!", "@", "#">>)
       = <<"t", "e", "s", "t", "-", "a", "g", "e", "n", "t", "-", "n", "a", "m", "e">>

\* C10 witness: a string with an upper-case letter, a run of two whitespace characters
\* and a character outside the class was sanitized
C10_Witness ==
  /\ sanPc = "done"
  /\ sanIn = <<"Z", " ", "\t", "!">>
  /\ sanOut = <<"z", "-">>

\* C11: sanitizeAgentName applied to its own result gives that result back, and its
\* result holds only characters of [a-z0-9-]
C11_SanitizeIdempotent ==
  /\ sanPc = "again" => sanOut = sanIn
  /\ sanPc \in {"done", "again"} =>
       \A i \in 1..Len(sanOut) :
         sanOut[i] \in Range(LowerChars) \cup DigitChars \cup {"-"}

\* C11 witness: the second call got a result of the first that came from a string with
\* whitespace, an upper-case letter and an underscore, and gave it back
C11_Witness ==
  /\ sanPc = "again"
  /\ sanIn = <<"z", "-", "9">>
  /\ sanOut = <<"z", "-", "9">>

\* s ends with suffix
endsWith(s, suffix) ==
  /\ Len(s) >= Len(suffix)
  /\ SubSeq(s, Len(s) - Len(suffix) + 1, Len(s)) = suffix

\* s without its last n characters
dropLast(s, n) == SubSeq(s, 1, Len(s) - n)

\* every character of s is in [a-z0-9-]
IsSafeString(s) == \A i \in 1..Len(s) : s[i] \in Range(LowerChars) \cup DigitChars \cup {"-"}

\* the names of the files of dir that this run wrote
Generated(dir) == {n \in DOMAIN dir : dir[n].run = 1}

\* the stem of an agent file name: what is left of .json or -prompt.md
AgentFileStem(n) ==
  IF endsWith(n, PromptExt) THEN dropLast(n, Len(PromptExt)) ELSE dropLast(n, Len(JsonExt))

\* C12 as stated: every file setup generates, agent file or command file, has a stem of
\* characters of [a-z0-9-] only
C12_EveryStemSanitized ==
  /\ \A n \in Generated(agents) :
       (endsWith(n, PromptExt) \/ endsWith(n, JsonExt)) /\ IsSafeString(AgentFileStem(n))
  /\ \A n \in Generated(commands) :
       endsWith(n, MdExt) /\ IsSafeString(dropLast(n, Len(MdExt)))

\* the run processed two distinct units with an <agent ...> tag whose identifiers
\* sanitize to the same stem
TwoUnitsCollide ==
  /\ pc = "workflows"
  /\ Len(agentArtifacts) = 2
  /\ agentArtifacts[1] # agentArtifacts[2]
  /\ AgentStems[agentArtifacts[1]] = AgentStems[agentArtifacts[2]]
  /\ ParsedArtifacts[agentArtifacts[1]] # NullRecord
  /\ ParsedArtifacts[agentArtifacts[2]] # NullRecord

\* C13: when two distinct units of a run sanitize to the same identifier the collision
\* makes nothing fail, and once the second unit is written the agents directory holds
\* one generated pair with that stem, both files with the second unit's content
C13_SecondUnitOverwrites ==
  TwoUnitsCollide =>
    /\ faults = 0 => (skippedItems = <<>> /\ agentCount = 2)
    /\ last.outcome = "ok" =>
         /\ Generated(agents) = {JsonPath(agentArtifacts[2]), PromptPath(agentArtifacts[2])}
         /\ agents[JsonPath(agentArtifacts[2])]
              = NewFile("json", AgentConfigs[agentArtifacts[2]], FALSE)
         /\ agents[PromptPath(agentArtifacts[2])]
              = NewFile("prompt", [text |-> PromptContents[agentArtifacts[2]]], FALSE)

\* C13 witness: both colliding units were written, the two have different
\* configurations and prompts, and the pair on disk is the second unit's
C13_Witness ==
  /\ TwoUnitsCollide
  /\ skippedItems = <<>>
  /\ last.outcome = "ok"
  /\ AgentConfigs[agentArtifacts[1]] # AgentConfigs[agentArtifacts[2]]
  /\ PromptContents[agentArtifacts[1]] # PromptContents[agentArtifacts[2]]
  /\ agents[JsonPath(agentArtifacts[1])].body = AgentConfigs[agentArtifacts[2]]

\* the index of the entry called name in the listing (0 when there is none)
ListingIndex(name) == Least({i \in 1..Len(discRoot) : discRoot[i].name = name})

\* the entries that qualify as modules besides core: directories other than 'core',
\* not named with a leading '_', that hold an agents entry
QualifyingNames ==
  {discRoot[i].name : i \in {j \in 1..Len(discRoot) :
      /\ discRoot[j].isDirectory
      /\ discRoot[j].agents
      /\ discRoot[j].name # Core
      /\ Head(discRoot[j].name) # "_"}}

\* C14: discoverAllModules returns a duplicate-free list, with 'core' first exactly when
\* core/agents exists, then in listing order exactly the other directories without a
\* leading '_' that hold agents; a non-directory entry is never in the list
C14_CoreFirstThenListingOrder ==
  discPc = "done" =>
    LET m == discOut.modules
    IN /\ \A a, b \in 1..Len(m) : a # b => m[a] # m[b]
       /\ \A a \in 1..Len(m) :
            \E i \in 1..Len(discRoot) : discRoot[i].name = m[a] /\ discRoot[i].isDirectory
       /\ ~discOut.warned =>
            /\ (\E i \in 1..Len(discRoot) :
                   discRoot[i].name = Core /\ discRoot[i].isDirectory /\ discRoot[i].agents)
                 <=> (Len(m) > 0 /\ m[1] = Core)
            /\ {m[a] : a \in 1..Len(m)} \ {Core} = QualifyingNames
            /\ \A a, b \in 1..Len(m) :
                 (a < b /\ m[a] # Core /\ m[b] # Core)
                   => ListingIndex(m[a]) < ListingIndex(m[b])

\* C14 witness: the listing holds a module, then core, then a file; core comes first in
\* the result
C14_Witness ==
  /\ discPc = "done"
  /\ discFailAt = 0
  /\ Len(discRoot) = 3
  /\ discRoot[1].name = <<"b", "m", "m">>
  /\ discRoot[2].name = Core
  /\ ~discRoot[3].isDirectory
  /\ discOut.modules = <<Core, <<"b", "m", "m">>>>

\* the I/O call chosen to fail is one discoverAllModules makes: the check of
\* core/agents, the listing, or the check of an entry the loop does not skip
DiscoveryFails ==
  \/ discFailAt \in {1, 2}
  \/ /\ discFailAt - 2 \in 1..Len(discRoot)
     /\ discRoot[discFailAt - 2].isDirectory
     /\ discRoot[discFailAt - 2].name # Core
     /\ Head(discRoot[discFailAt - 2].name) # "_"

\* C15: when the listing of the input root or an existence check fails,
\* discoverAllModules does not throw: it warns and returns the modules found before the
\* failure (nothing, only 'core', or 'core' and the modules listed before the entry
\* whose check failed)
C15_DiscoveryFailureNotFatal ==
  discPc = "done" =>
    LET m == discOut.modules
    IN /\ ~discOut.threw
       /\ discOut.warned <=> DiscoveryFails
       /\ DiscoveryFails =>
            /\ discFailAt = 1 => m = <<>>
            /\ discFailAt >= 2 =>
                 /\ (\E i \in 1..Len(discRoot) :
                        discRoot[i].name = Core /\ discRoot[i].isDirectory /\ discRoot[i].agents)
                      <=> (Len(m) > 0 /\ m[1] = Core)
                 /\ {m[a] : a \in 1..Len(m)} \ {Core}
                      = {n \in QualifyingNames : ListingIndex(n) < discFailAt - 2}
                 /\ \A a, b \in 1..Len(m) :
                      (a < b /\ m[b] # Core) => (m[a] = Core \/ ListingIndex(m[a]) < ListingIndex(m[b]))

\* C15 witness: the existence check of the third entry threw after core and one module
\* were found, and these two were returned with a warning
C15_Witness ==
  /\ discPc = "done"
  /\ discFailAt = 5
  /\ DiscoveryFails
  /\ Len(discRoot) = 3
  /\ discRoot[3].agents
  /\ discOut.warned
  /\ discOut.modules = <<Core, <<"b", "m", "m">>>>

\* no entry of the input root has an agents subdirectory
NoAgentsTree == \A i \in 1..Len(bmadDir.entries) : ~bmadDir.entries[i].agents

\* the steering files that need no planning source
IndexFiles == {"bmad-index.md", "bmad-workflows.md"}

ClaimedStem ==
  [a \in ArtifactPool |->
     sanitizeAgentName(BmadPrefix \o <<"-">> \o a.module \o <<"-">> \o a.name)]

\* C17: every file the run wrote into .kiro/agents is <stem>.json or <stem>-prompt.md
\* for the stem sanitize('bmad-' + module + '-' + name) of an artifact processed so far;
\* its name starts with 'bmad-', so the cleanup filter selects it; and the files whose
\* name lacks the prefix are still what the run found
C17_AgentFilesNamedByStem ==
  /\ \A n \in Generated(agents) :
       /\ \E i \in 1..Len(agentArtifacts) :
            /\ i <= idx
            /\ n \in {ClaimedStem[agentArtifacts[i]] \o JsonExt,
                      ClaimedStem[agentArtifacts[i]] \o PromptExt}
       /\ startsWith(n, BmadPrefix \o <<"-">>)
       /\ n \in bmadFiles(agents)
  /\ \A n \in DOMAIN pre.agents \ Prefixed(pre.agents) :
       n \in DOMAIN agents /\ agents[n] = pre.agents[n]

\* C17 witness: next to a user file, the run has written the pair of an artifact whose
\* name the sanitization changes
C17_Witness ==
  /\ JustProcessed
  /\ last.outcome = "ok"
  /\ LastArtifact.name = <<"P", "M">>
  /\ UserAgentFile \in DOMAIN agents
  /\ {<<"b", "m", "a", "d", "-", "c", "o", "r", "e", "-", "p", "m">> \o JsonExt,
      <<"b", "m", "a", "d", "-", "c", "o", "r", "e", "-", "p", "m">> \o PromptExt}
       \subseteq Generated(agents)

\* heading occurs in the prompt o, once, followed by body and the line end that makes
\* the blank line
SectionIn(o, heading, body, end) ==
  /\ Cardinality({p \in 1..Len(o) : o[p] = heading}) = 1
  /\ \E p \in 1..Len(o) :
       /\ o[p] = heading
       /\ p + Len(body) + 1 <= Len(o)
       /\ SubSeq(o, p + 1, p + Len(body)) = body
       /\ o[p + Len(body) + 1] = end

\* the section of a field is in the prompt exactly when the field is not empty
SectionIffField(o, heading, body, end) ==
  IF body = <<>> THEN heading \notin Range(o) ELSE SectionIn(o, heading, body, end)

\* the line of menu entry i: <i>. **<trigger>**: <description>
MenuLine(items, i) ==
  <<ToString(i), ". **">> \o items[i].trigger \o <<"**: ">> \o items[i].description \o <<"\n">>

\* the paragraph every prompt ends with
InstructionsFor(name) ==
  <<"## Instructions\nYou are ">> \o name \o <<", part of the BMad Method.\n">>

\* C18: for a record parseCompiledAgent produced, the prompt holds the heading of role,
\* identity, communication style and principles exactly when the field is not empty,
\* followed by the field; it holds the menu heading exactly when there are menu items,
\* followed by the entries numbered 1..n in extraction order; and it ends with the
\* Instructions paragraph that names the record's name
C18_PromptSections ==
  parsePc = "prompted" =>
    /\ SectionIffField(promptOut, "## Role\n", parseOut.role, "\n\n")
    /\ SectionIffField(promptOut, "## Identity\n", parseOut.identity, "\n\n")
    /\ SectionIffField(promptOut, "## Communication Style\n", parseOut.communicationStyle, "\n\n")
    /\ SectionIffField(promptOut, "## Principles\n", parseOut.principles, "\n\n")
    /\ SectionIffField(promptOut, "## Available Workflows\n",
                       Concat([i \in 1..Len(parseOut.menuItems) |->
                                 MenuLine(parseOut.menuItems, i)]), "\n")
    /\ Len(promptOut) >= Len(InstructionsFor(parseOut.name))
    /\ SubSeq(promptOut, Len(promptOut) - Len(InstructionsFor(parseOut.name)) + 1,
              Len(promptOut)) = InstructionsFor(parseOut.name)
    /\ Cardinality({p \in 1..Len(promptOut) : promptOut[p] = "## Instructions\nYou are "}) = 1

\* C18 witness: the prompt of a record with a role, three menu entries and no identity
C18_Witness ==
  /\ parsePc = "prompted"
  /\ parseOut.role # <<>>
  /\ parseOut.identity = <<>>
  /\ Len(parseOut.menuItems) = 3
  /\ "## Role\n" \in Range(promptOut)
  /\ "## Identity\n" \notin Range(promptOut)

\* the item has the form <item cmd="...">text</item>: cmd is its first attribute and
\* is not empty, and the text is not empty and holds no markup
IsMenuEntry(it) ==
  /\ it.form \in {"plain", "extraAttr"}
  /\ it.cmd # <<>>
  /\ it.text # <<>>
  /\ \A k \in 1..Len(it.text) : ~IsLt(it.text[k])

\* the entries of the first <menu> block of document d, in source order
FirstMenuEntries(d) == IF d.menus = <<>> THEN <<>> ELSE SelectSeq(d.menus[1], IsMenuEntry)

\* C19: menuItems holds, in source order, the (trigger, description) pair of every
\* <item cmd="...">text</item> entry of the first <menu> block and nothing else: no item
\* of a later block or from outside the blocks; without a <menu> block it is the empty
\* list
C19_MenuItemsOfFirstBlock ==
  (parsePc \in {"parsed", "prompted"} /\ parseOut # NullRecord) =>
    /\ Len(parseOut.menuItems) = Len(FirstMenuEntries(parseDoc))
    /\ \A i \in 1..Len(parseOut.menuItems) :
         /\ parseOut.menuItems[i].trigger = FirstMenuEntries(parseDoc)[i].cmd
         /\ parseOut.menuItems[i].description = trim(FirstMenuEntries(parseDoc)[i].text)
    /\ parseDoc.menus = <<>> => parseOut.menuItems = <<>>

\* C19 witness: a document with an item outside the blocks and two menu blocks of one
\* entry each has been parsed, and menuItems holds the entry of the first block
C19_Witness ==
  /\ parsePc = "parsed"
  /\ parseOut # NullRecord
  /\ parseDoc.strayItem
  /\ Len(parseDoc.menus) = 2
  /\ parseDoc.menus[1] # <<>>
  /\ parseOut.menuItems = <<[trigger |-> <<"c">>, description |-> <<"D">>]>>

\* the attribute list of the first <agent> tag of d that has attributes (<<>> if none)
FirstAgentTag(d) ==
  IF \E i \in 1..Len(d.tags) : d.tags[i] # <<>>
  THEN d.tags[CHOOSE i \in 1..Len(d.tags) :
                /\ d.tags[i] # <<>>
                /\ \A j \in 1..(i - 1) : d.tags[j] = <<>>]
  ELSE <<>>

\* the value of the first attribute key="..." of the list with a value, or fallback
AttrOr(attrs, key, fallback) ==
  IF \E i \in 1..Len(attrs) : attrs[i].key = key /\ attrs[i].value # <<>>
  THEN attrs[CHOOSE i \in 1..Len(attrs) :
               /\ attrs[i].key = key /\ attrs[i].value # <<>>
               /\ \A j \in 1..(i - 1) : ~(attrs[j].key = key /\ attrs[j].value # <<>>)].value
  ELSE fallback

\* the sub-tag matches <tag>text</tag>: its text is not empty and holds no markup
IsTextField(f, tag) ==
  f.tag = tag /\ f.text # <<>> /\ \A k \in 1..Len(f.text) : ~IsLt(f.text[k])

\* the trimmed text of the first matching sub-tag of the first <persona> block of d, or
\* the empty string
PersonaField(d, tag) ==
  IF d.personas = <<>> THEN <<>>
  ELSE IF SelectSeq(d.personas[1], LAMBDA f : IsTextField(f, tag)) = <<>> THEN <<>>
  ELSE trim(Head(SelectSeq(d.personas[1], LAMBDA f : IsTextField(f, tag))).text)

\* C20: for content with an <agent ...> tag that has attributes, parseCompiledAgent
\* returns a record; name, title and icon come from the first such tag, or are
\* artifact.name, artifact.description and the default icon; role, identity,
\* communicationStyle and principles are the trimmed text of the first matching sub-tag
\* of the first <persona> block, or empty; without a <persona> block all four are empty
C20_AttributesAndPersona ==
  (parsePc \in {"parsed", "prompted"} /\ FirstAgentTag(parseDoc) # <<>>) =>
    /\ parseOut # NullRecord
    /\ parseOut.name = AttrOr(FirstAgentTag(parseDoc), "name=", ParseArtifact.name)
    /\ parseOut.title = AttrOr(FirstAgentTag(parseDoc), "title=", ParseArtifact.description)
    /\ parseOut.icon = AttrOr(FirstAgentTag(parseDoc), "icon=", DefaultIcon)
    /\ parseOut.role = PersonaField(parseDoc, "<role")
    /\ parseOut.identity = PersonaField(parseDoc, "<identity")
    /\ parseOut.communicationStyle = PersonaField(parseDoc, "<communication_style")
    /\ parseOut.principles = PersonaField(parseDoc, "<principles")
    /\ parseDoc.personas = <<>> =>
         /\ parseOut.role = <<>>
         /\ parseOut.identity = <<>>
         /\ parseOut.communicationStyle = <<>>
         /\ parseOut.principles = <<>>

\* C20 witness: a document with two <agent> tags, the first naming only the name, a
\* <role> outside the blocks and one persona block whose first <role> needs trimming
C20_Witness ==
  /\ parsePc = "parsed"
  /\ Len(parseDoc.tags) = 2
  /\ parseDoc.strayRole
  /\ parseDoc.personas = <<<<Parts.roleR, Parts.roleQ>>>>
  /\ parseOut # NullRecord
  /\ parseOut.name = <<"P", "M">>
  /\ parseOut.title = ParseArtifact.description
  /\ parseOut.icon = DefaultIcon
  /\ parseOut.role = <<"R">>
  /\ parseOut.identity = <<>>

\* the description the claim gives the configuration of each artifact: the record's
\* name, " - ", and the role, or the title when the role is empty
ClaimedDescription ==
  [a \in ArtifactPool |->
     IF ParsedArtifacts[a] = NullRecord THEN <<>>
     ELSE IF ParsedArtifacts[a].role # <<>>
     THEN ParsedArtifacts[a].name \o <<" - ">> \o ParsedArtifacts[a].role
     ELSE ParsedArtifacts[a].name \o <<" - ">> \o ParsedArtifacts[a].title]

\* the configuration object c is the one the claim describes for artifact a
IsClaimedConfig(c, a) ==
  /\ c.name = ClaimedStem[a]
  /\ c.description = ClaimedDescription[a]
  /\ c.tools = <<"*">>
  /\ c.mcpServers = <<>>
  /\ c.useLegacyMcpJson = TRUE
  /\ c.resources = <<>>
  /\ c.prompt = <<"file://">> \o c.name \o PromptExt

\* C21: every configuration written by the run is, for one of the artifacts processed
\* so far, the object with name = identifier, description = name - role (name - title
\* when the role is empty), tools ['*'], mcpServers {}, useLegacyMcpJson true, resources
\* [] and the prompt reference file://<identifier>-prompt.md; and when a unit has just
\* been written, the file its prompt reference names holds its content document
C21_ConfigShape ==
  /\ \A n \in WrittenConfigs :
       \E i \in 1..Len(agentArtifacts) :
         /\ i <= idx
         /\ n = ClaimedStem[agentArtifacts[i]] \o JsonExt
         /\ IsClaimedConfig(agents[n].body, agentArtifacts[i])
  /\ (JustProcessed /\ last.outcome = "ok") =>
       /\ JsonPath(LastArtifact) \in WrittenConfigs
       /\ IsClaimedConfig(agents[JsonPath(LastArtifact)].body, LastArtifact)
       /\ agents[JsonPath(LastArtifact)].body.name \o PromptExt \in DOMAIN agents
       /\ agents[agents[JsonPath(LastArtifact)].body.name \o PromptExt]
            = NewFile("prompt", [text |-> PromptContents[LastArtifact]], FALSE)

\* C21 witness: after a unit with a role, the run has written the pair of a unit
\* without a role, whose description ends with the title
C21_Witness ==
  /\ JustProcessed
  /\ last.outcome = "ok"
  /\ Len(agentArtifacts) = 2
  /\ last.idx = 2
  /\ ParsedArtifacts[LastArtifact] # NullRecord
  /\ ParsedArtifacts[LastArtifact].role = <<>>
  /\ ParsedArtifacts[agentArtifacts[1]] # NullRecord
  /\ ParsedArtifacts[agentArtifacts[1]].role # <<>>
  /\ agents[JsonPath(LastArtifact)].body.description = <<"P", "M", " - ", "e">>

\* C22 as stated: validateAgentJson throws exactly when the configuration violates the
\* schema, and the message of the error reports every violated field
C22_EveryViolationReported ==
  valPc = "done" =>
    /\ valOut.threw <=> Violations(valCfg) # {}
    /\ valOut.threw => Violations(valCfg) \subseteq valOut.reported

\* C23: a cleanup in which removals fail does not throw: setup goes on where it
\* would have gone, with the error it had; every 'bmad' entry of .kiro/agents and
\* .kiro/commands other than those whose removal failed is gone, and so is the steering
\* directory unless its own removal failed
C23_CleanupGoesOn ==
  [][(pc \in {"cleanup", "catch"} /\ pc' # pc) =>
       /\ pc' = (IF pc = "cleanup" THEN "ensureDirs" ELSE "thrown")
       /\ error' = error
       /\ rmFailed'.agents \subseteq Prefixed(agents)
       /\ rmFailed'.commands \subseteq Prefixed(commands)
       /\ Prefixed(agents') = rmFailed'.agents
       /\ Prefixed(commands') = rmFailed'.commands
       /\ steeringExists' = (steeringExists /\ rmFailed'.steering)]_vars

\* C23 witness: the initial cleanup could not remove one 'bmad' agent file; it removed
\* the other one, the 'bmad' command file and the steering directory, and setup goes on
C23_Witness ==
  /\ pc = "ensureDirs"
  /\ Cardinality(rmFailed.agents) = 1
  /\ Cardinality(Prefixed(pre.agents)) = 2
  /\ Cardinality(Prefixed(agents)) = 1
  /\ Prefixed(pre.commands) # {}
  /\ Prefixed(commands) = {}
  /\ pre.steering
  /\ ~steeringExists

\* C24 as stated: an artifact is counted as generated exactly when its file pair was
\* written, an artifact without an <agent> tag is not counted, and the generated and
\* the skipped artifacts add up to the artifacts processed
C24_CountsWrittenPairs ==
  [][(pc = "agents" /\ idx' = idx + 1) =>
       /\ agentCount' = (IF last'.outcome = "ok" THEN agentCount + 1 ELSE agentCount)
       /\ agentCount' + Len(skippedItems') = idx]_vars

\* the entries of the directory that a step has added, removed or changed
Touched(dir, dir2) ==
  {n \in DOMAIN dir \cup DOMAIN dir2 :
     n \notin DOMAIN dir \/ n \notin DOMAIN dir2 \/ dir[n] # dir2[n]}

\* nothing of this run has been written yet
NothingGenerated == Generated(agents) = {} /\ Generated(commands) = {} /\ steeringFiles = {}

\* C25: the initial cleanup runs, and ends, while no file of the run has been written;
\* after it, as long as setup has not failed, entries are removed only by the
\* processing of an artifact, which touches the files of that artifact alone; the
\* artifacts are processed one per step in collection order, artifact i + 1 only after
\* the processing of artifact i has returned or thrown
C25_CleanupFirstThenInOrder ==
  [][/\ pc \in {"start", "cleanup"} => NothingGenerated
     /\ (pc = "cleanup" /\ pc' # pc) => (Generated(agents') = {} /\ Generated(commands') = {})
     /\ (pc \notin {"cleanup", "catch"}) =>
          /\ DOMAIN commands \subseteq DOMAIN commands'
          /\ DOMAIN agents \ DOMAIN agents' # {} => pc = "agents"
     /\ pc = "agents" =>
          /\ Touched(agents, agents') \subseteq {JsonPath(agentArtifacts[idx]),
                                                PromptPath(agentArtifacts[idx])}
          /\ idx' = idx + 1
          /\ last'.idx = idx
          /\ last.idx = idx - 1
     /\ pc # "agents" => idx' = idx
     /\ (pc # "agents" /\ pc # "cleanup" /\ pc # "catch") => agents' = agents]_vars

\* C25 witness: two artifacts were processed after an initial cleanup that removed
\* files of an earlier run, and the second one was written
C25_Witness ==
  /\ pc = "workflows"
  /\ Prefixed(pre.agents) # {}
  /\ Stale(agents) = {}
  /\ Len(agentArtifacts) = 2
  /\ last.idx = 2
  /\ last.outcome = "ok"
  /\ agentCount = 2

\* C26 as stated: the steering files of a run are under <projectDir>/.kiro/steering, the
\* directory cleanup(projectDir) removes, and never in a directory of their own under
\* another working directory
C26_SteeringUnderProjectDir ==
  (pc = "done" /\ steeringFiles # {}) => (steeringExists /\ ~cwdSteering)

\* setup has thrown because of a failure after the initial cleanup
ThrownWhileGenerating == pc = "thrown" /\ error \in {"ensureDir", "collect", "commands"}

C28_RefusedSetupLeavesTree ==
  (pc = "thrown" /\ error = "required") =>
    /\ kiroExists = pre.kiro
    /\ agentsExists = pre.agentsDir
    /\ commandsExists = pre.commandsDir
    /\ agents = pre.agents
    /\ commands = pre.commands
    /\ steeringExists = pre.steering

\* both files of the artifact are in the directory, written by this run, complete, and
\* holding the configuration and the prompt made from this artifact
OwnPair(dir, a) ==
  /\ ParsedArtifacts[a] # NullRecord
  /\ JsonPath(a) \in DOMAIN dir
  /\ dir[JsonPath(a)].run = 1
  /\ dir[JsonPath(a)].kind = "json"
  /\ ~dir[JsonPath(a)].partial
  /\ dir[JsonPath(a)].body = AgentConfigs[a]
  /\ PromptPath(a) \in DOMAIN dir
  /\ dir[PromptPath(a)].run = 1
  /\ dir[PromptPath(a)].kind = "prompt"
  /\ ~dir[PromptPath(a)].partial
  /\ dir[PromptPath(a)].body = [text |-> PromptContents[a]]

\* C29: a failure while processing one agent artifact leaves the files of every other
\* artifact processed before it in the same run as they were: an earlier artifact that
\* had both of its files with its own content still has them after the failure
C29_FailureSparesOtherArtifacts ==
  [][(pc = "agents" /\ idx' = idx + 1 /\ last'.outcome = "threw") =>
       \A j \in 1..(idx - 1) :
          OwnPair(agents, agentArtifacts[j]) => OwnPair(agents', agentArtifacts[j])]_vars

\* C30: at the end of a run the steering count of the summary, results.generated of
\* generateAll, is the number of steering files that call wrote
C30_SteeringCountIsFilesWritten ==
  pc = "done" => counts.steering = Cardinality(steeringFiles)

====
